---- MODULE Spec2Model ----
(***************************************************************************)
(* Model of the signal pipeline of telescopic_modelling: valuation         *)
(* snapshots (TTM EPS and trailing P/E), momentum signals, fundamental     *)
(* scores, fiscal-year derived metrics, valuation signals and the          *)
(* cross-sectional composite scorer, over the relational store they share. *)
(*                                                                         *)
(* Numbers.  The code computes on floats / decimals and rounds before it   *)
(* stores.  The model keeps every stored quantity as an integer count of   *)
(* its storage unit and computes the roundings exactly:                    *)
(*    prices and P/E multiples   in 1/100      (round(x, 2))               *)
(*    EPS facts                  in 1/100                                  *)
(*    ttm_eps, momentum, growth,                                           *)
(*    ratios, percentiles        in 1/10000    (round(x, 4))               *)
(* Dates are day numbers on a calendar of four 91-day quarters a year.     *)
(***************************************************************************)
EXTENDS Integers, Sequences, FiniteSets, TLC

\* ------------------------------------------------------------------ bounds
NumTickers == 4
NumQuarters == 10
\* the quarters the input worlds of a single calculator draw their facts from
WorldQuarters == 5

\* --------------------------------------------------------- program values
\* SQL NULL / Python None, as a value outside every modelled range
NULL == -999999
\* days between two consecutive quarter ends of generate_quarter_ends
QuarterLen == 91

Tickers == 1..NumTickers
QuarterIdx == 1..NumQuarters
QEnd(n) == QuarterLen * n
\* generate_quarter_ends starts with the year 2015; a year has four quarters
BaseYear == 2015
Year(d) == BaseYear + (d - 1) \div (4 * QuarterLen)

\* later than every date of the model
Never == QEnd(NumQuarters + 4)

\* generate_quarter_ends: every quarter end from the first year on, ascending
quarter_ends == { QEnd(n) : n \in QuarterIdx }

\* ------------------------------------------------------------- arithmetic
Abs(x) == IF x < 0 THEN -x ELSE x

Max(a, b) == IF a >= b THEN a ELSE b

\* n / d rounded to the nearest integer, ties to even: Python's round()
RoundDivPos(n, d) ==
    LET q == n \div d
        r == n % d
    IN  IF 2 * r < d THEN q
        ELSE IF 2 * r > d THEN q + 1
        ELSE IF q % 2 = 0 THEN q ELSE q + 1

RoundDiv(n, d) == IF d > 0 THEN RoundDivPos(n, d) ELSE RoundDivPos(-n, -d)

\* the integer part of the square root of n >= 0, by bisection
RECURSIVE ISqrtIn(_, _, _)
ISqrtIn(n, lo, hi) ==
    IF lo >= hi THEN lo
    ELSE LET mid == (lo + hi + 1) \div 2
         IN  IF mid * mid <= n THEN ISqrtIn(n, mid, hi) ELSE ISqrtIn(n, lo, mid - 1)

ISqrt(n) == ISqrtIn(n, 0, 46340)

RECURSIVE Gcd(_, _)
Gcd(a, b) == IF b = 0 THEN a ELSE Gcd(b, a % b)

RECURSIVE GcdSeq(_)
GcdSeq(s) == IF s = <<>> THEN 0 ELSE Gcd(Abs(Head(s)), GcdSeq(Tail(s)))

RECURSIVE SumSeq(_)
SumSeq(s) == IF s = <<>> THEN 0 ELSE Head(s) + SumSeq(Tail(s))

\* the elements of a finite set of integers as a descending sequence
RECURSIVE SortDesc(_)
SortDesc(S) ==
    IF S = {} THEN <<>>
    ELSE LET m == CHOOSE x \in S : \A y \in S : y <= x
         IN  <<m>> \o SortDesc(S \ {m})

\* the k-th element of a finite set of integers in ascending order
\* (row k of ORDER BY ... ASC, counted from 1)
\* for S within lo..hi holding at least k elements, by bisection
RECURSIVE KthSmallest(_, _, _, _)
KthSmallest(S, k, lo, hi) ==
    IF lo >= hi THEN lo
    ELSE LET mid == (lo + hi) \div 2
         IN  IF Cardinality({ e \in S : e <= mid }) >= k
             THEN KthSmallest(S, k, lo, mid)
             ELSE KthSmallest(S, k, mid + 1, hi)

\* the largest element of a non-empty set S within 0..hi
Latest(S, hi) == KthSmallest(S, Cardinality(S), 0, hi)

\* the sum of f over the integers of S within lo..hi
RECURSIVE RangeSum(_, _, _, _)
RangeSum(f, S, lo, hi) ==
    IF lo > hi THEN 0
    ELSE IF lo = hi THEN (IF lo \in S THEN f[lo] ELSE 0)
    ELSE LET mid == (lo + hi) \div 2
         IN  RangeSum(f, S, lo, mid) + RangeSum(f, S, mid + 1, hi)

\* LIMIT n
Limit(s, n) == IF Len(s) <= n THEN s ELSE SubSeq(s, 1, n)

\* ------------------------------------------------------------------ state
VARIABLES
    \* the facts of the store
    price_history,               \* [ticker -> [date -> [price, volume]]]
    \* the statement tables, each [ticker -> [period_ending -> fact]]
    income_statement_quarterly,
    balance_sheet_quarterly,
    cash_flow_quarterly,
    income_statement_annual,
    balance_sheet_annual,
    cash_flow_annual,
    \* [<<ticker, fiscal_year>> -> row]
    derived_metrics,
    \* the derived tables, each [<<ticker, as_of_date>> -> row]
    valuation_snapshots,
    valuation_signals,
    momentum_signals,
    fundamental_scores,
    composite_signals,
    \* CompositeSignalCalculator.process_all: the quarter its loop is at
    \* (0: not running) and the rows its last process_quarter saved
    composite_next,
    data_to_save,
    \* the operation that ran last
    pc,
    \* the number of store-side changes of signal rows so far
    feature_changes,
    \* the pipeline runs started so far, and the earliest date of a fact
    \* loaded after the first run (Never: none yet)
    runs,
    horizon,
    \* the backtest tables: [<<as_of_date, holding_days, ticker>> -> row] and
    \* [<<as_of_date, holding_days, top_n>> -> row]
    backtest_detail,
    backtest_summary,
    \* [<<ticker, as_of_date>> -> row]
    projected_returns,
    \* the tickers whose batch insert raised a database error in the last run
    \* of the snapshot builder
    insert_failed,
    \* what fetch_eps_data returned to a compute_eps_cagr that has not written
    \* its updates yet (NoFetch: none is under way)
    eps_data

statements == <<income_statement_quarterly, balance_sheet_quarterly,
                cash_flow_quarterly, income_statement_annual,
                balance_sheet_annual, cash_flow_annual>>
fact_tables == <<price_history, statements>>
book == <<feature_changes, runs, horizon>>
later_tables == <<backtest_detail, backtest_summary, projected_returns>>
in_flight == <<insert_failed, eps_data>>
signal_tables == <<valuation_signals, momentum_signals, fundamental_scores>>
scorer_state == <<composite_signals, composite_next, data_to_save>>

vars == <<fact_tables, valuation_snapshots, derived_metrics, signal_tables,
          scorer_state, pc, book, later_tables, in_flight>>

\* INSERT ... ON CONFLICT (key) DO UPDATE: rows replace or extend the table
Upsert(table, rows) ==
    [k \in (DOMAIN table) \cup (DOMAIN rows) |->
        IF k \in DOMAIN rows THEN rows[k] ELSE table[k]]

EmptyTable == [k \in {} |-> NULL]

\* eps_data when no compute_eps_cagr is between its fetch and its update
NoFetch == [absent |-> TRUE]

\* ------------------------------------------------- valuation_snapshots.py
\* get_tickers: SELECT DISTINCT ticker FROM income_statement_quarterly
SnapshotTickers == { t \in Tickers : DOMAIN income_statement_quarterly[t] # {} }

\* the query of get_strict_ttm_eps: the newest four non-null diluted EPS
\* with period_ending <= as_of_date, newest first
TtmEpsValues(ticker, as_of_date) ==
    LET facts == income_statement_quarterly[ticker]
        periods == { p \in DOMAIN facts :
                        p <= as_of_date /\ facts[p].diluted_eps # NULL }
        newest == Limit(SortDesc(periods), 4)
    IN  [i \in 1..Len(newest) |-> facts[newest[i]].diluted_eps]

\* a variant of get_strict_ttm_eps that sums the values it finds and does not
\* extrapolate to four quarters
get_strict_ttm_eps_no_extrapolation(ticker, as_of_date) ==
    LET eps_values == TtmEpsValues(ticker, as_of_date)
        n == Len(eps_values)
    IN  IF n < 2 THEN <<>> ELSE <<SumSeq(eps_values) * 100, n = 4>>

\* get_strict_ttm_eps: <<>> for None, or <<ttm_eps in 1/10000, is_complete>>
get_strict_ttm_eps(ticker, as_of_date) ==
    LET eps_values == TtmEpsValues(ticker, as_of_date)
        n == Len(eps_values)
        total == SumSeq(eps_values)
    IN  IF n < 2 THEN <<>>
        ELSE \* sum + (sum / n) * (4 - n), rounded to 4 places
             <<RoundDiv((total * n + total * (4 - n)) * 100, n), n = 4>>

\* a variant of get_entry_price that takes the earliest price (ORDER BY date
\* ascending)
get_entry_price_earliest(ticker, as_of_date) ==
    LET days == { d \in DOMAIN price_history[ticker] : d <= as_of_date }
    IN  IF days = {} THEN NULL
        ELSE price_history[ticker][KthSmallest(days, 1, 0, as_of_date)].price

\* get_entry_price: the latest price with date <= as_of_date
get_entry_price(ticker, as_of_date) ==
    LET days == { d \in DOMAIN price_history[ticker] : d <= as_of_date }
    IN  IF days = {} THEN NULL
        ELSE price_history[ticker][Latest(days, as_of_date)].price

\* the row process_ticker appends for one quarter end (NoRow: the date is
\* skipped).  ttm_pe is price / ttm_eps rounded to 2 places; the code stores
\* None when ttm_eps is 0 and also when the quotient itself is falsy (0.0)
NoRow == [absent |-> TRUE]

SnapshotRow(ticker, qend) ==
    LET result == get_strict_ttm_eps(ticker, qend)
        price == get_entry_price(ticker, qend)
    IN  IF result = <<>> THEN NoRow
        ELSE IF price = NULL THEN NoRow
        ELSE LET ttm_eps == result[1]
                 has_pe == ttm_eps # 0 /\ price # 0
             IN  [ttm_eps |-> ttm_eps,
                  ttm_eps_complete |-> result[2],
                  entry_price |-> price,
                  ttm_pe |-> IF has_pe THEN RoundDiv(price * 10000, ttm_eps)
                             ELSE NULL]

\* process_ticker + save_snapshots, for every ticker of process_all
SnapshotRows ==
    LET all == [k \in SnapshotTickers \X quarter_ends |-> SnapshotRow(k[1], k[2])]
        keys == { k \in DOMAIN all : all[k] # NoRow }
    IN  [k \in keys |-> all[k]]

ProcessAllSnapshots ==
    /\ valuation_snapshots' = Upsert(valuation_snapshots, SnapshotRows)
    /\ pc' = "snapshots"
    /\ UNCHANGED <<fact_tables, derived_metrics, signal_tables, scorer_state, book,
                    later_tables, in_flight>>

\* the tickers process_ticker hands a non-empty batch to save_snapshots
InsertingTickers == { k[1] : k \in DOMAIN SnapshotRows }

\* process_all when the database raises an error in the batch insert of one
\* ticker.  save_snapshots catches it and does not call rollback(): the
\* connection is shared by every query of the run and has autocommit off,
\* so the transaction stays aborted, the next query of each later ticker
\* (ORDER BY ticker) raises in turn and the except of process_all swallows
\* it.  The batches committed before the error stay
ProcessAllSnapshotsInsertError ==
    /\ \E failing \in InsertingTickers :
         /\ valuation_snapshots' =
               Upsert(valuation_snapshots,
                      [k \in { x \in DOMAIN SnapshotRows : x[1] < failing } |->
                          SnapshotRows[k]])
         /\ insert_failed' = {failing}
    /\ pc' = "snapshots"
    /\ UNCHANGED <<fact_tables, derived_metrics, signal_tables, scorer_state, book,
                    later_tables, eps_data>>

\* ------------------------------------------- momentum_signal_calculator.py
\* self.lookbacks
Lookback3m == 63
Lookback6m == 126
Lookback12m == 252
\* the calendar buffer added to a lookback in get_price_n_days_before
BufferDays == 90
\* the calendar window of get_avg_volume_3m
VolumeDays == 90

\* self.fallback_thresholds
fallback_thresholds(n_days) ==
    CASE n_days = Lookback3m -> 50
      [] n_days = Lookback6m -> 100
      [] n_days = Lookback12m -> 200
      [] OTHER -> (n_days * 8) \div 10

\* get_tickers: SELECT DISTINCT ticker FROM price_history
MomentumTickers == { t \in Tickers : DOMAIN price_history[t] # {} }

get_price_on_or_before(ticker, as_of_date) ==
    LET days == { d \in DOMAIN price_history[ticker] : d <= as_of_date }
    IN  IF days = {} THEN NULL
        ELSE price_history[ticker][Latest(days, as_of_date)].price

\* the sessions of the window [as_of_date - (n_days + 90), as_of_date]
WindowRows(ticker, as_of_date, n_days) ==
    LET start_date == as_of_date - (n_days + BufferDays)
    IN  { d \in DOMAIN price_history[ticker] :
            /\ start_date <= d /\ d <= as_of_date
            /\ price_history[ticker][d].price # NULL }

\* get_price_n_days_before: rows[min_required - 1] of the window taken in
\* ascending date order
get_price_n_days_before(ticker, as_of_date, n_days) ==
    LET rows == WindowRows(ticker, as_of_date, n_days)
        min_required == fallback_thresholds(n_days)
    IN  IF Cardinality(rows) < min_required THEN NULL
        ELSE price_history[ticker][KthSmallest(rows, min_required,
                                               as_of_date - (n_days + BufferDays),
                                               as_of_date)].price

\* get_avg_volume_3m: AVG(volume)::BIGINT over [as_of_date - 90, as_of_date]
get_avg_volume_3m(ticker, as_of_date) ==
    LET days == { d \in DOMAIN price_history[ticker] :
                    /\ as_of_date - VolumeDays <= d /\ d <= as_of_date
                    /\ price_history[ticker][d].volume # NULL }
        total == RangeSum([d \in days |-> price_history[ticker][d].volume],
                          days, as_of_date - VolumeDays, as_of_date)
    IN  IF days = {} THEN NULL
        ELSE (2 * total + Cardinality(days)) \div (2 * Cardinality(days))

\* round(current_price / price_n - 1, 4)
MomentumValue(current_price, price_n) ==
    RoundDiv((current_price - price_n) * 10000, price_n)

\* a variant of the row of process_all that is saved with the 12-month
\* momentum left empty when only the 12-month price is missing
MomentumRowPartial(ticker, qend) ==
    LET current_price == get_price_on_or_before(ticker, qend)
        price_3m == get_price_n_days_before(ticker, qend, Lookback3m)
        price_6m == get_price_n_days_before(ticker, qend, Lookback6m)
        price_12m == get_price_n_days_before(ticker, qend, Lookback12m)
        avg_vol == get_avg_volume_3m(ticker, qend)
    IN  IF current_price = NULL \/ price_3m = NULL \/ price_6m = NULL \/ avg_vol = NULL
        THEN NoRow
        ELSE IF price_3m = 0 \/ price_6m = 0 \/ price_12m = 0 THEN NoRow
        ELSE [momentum_3m |-> MomentumValue(current_price, price_3m),
              momentum_6m |-> MomentumValue(current_price, price_6m),
              momentum_12m |-> IF price_12m = NULL THEN NULL
                               ELSE MomentumValue(current_price, price_12m),
              avg_volume_3m |-> avg_vol]

\* the row process_all saves for one (ticker, quarter end), or NoRow
MomentumRow(ticker, qend) ==
    LET current_price == get_price_on_or_before(ticker, qend)
        price_3m == get_price_n_days_before(ticker, qend, Lookback3m)
        price_6m == get_price_n_days_before(ticker, qend, Lookback6m)
        price_12m == get_price_n_days_before(ticker, qend, Lookback12m)
        avg_vol == get_avg_volume_3m(ticker, qend)
        missing == price_3m = NULL \/ price_6m = NULL \/ price_12m = NULL
                     \/ avg_vol = NULL
    IN  IF current_price = NULL THEN NoRow
        ELSE IF missing THEN NoRow
        \* ZeroDivisionError is swallowed by the except of process_all
        ELSE IF price_3m = 0 \/ price_6m = 0 \/ price_12m = 0 THEN NoRow
        ELSE [momentum_3m |-> MomentumValue(current_price, price_3m),
              momentum_6m |-> MomentumValue(current_price, price_6m),
              momentum_12m |-> MomentumValue(current_price, price_12m),
              avg_volume_3m |-> avg_vol]

MomentumRows ==
    LET all == [k \in MomentumTickers \X quarter_ends |-> MomentumRow(k[1], k[2])]
        keys == { k \in DOMAIN all : all[k] # NoRow }
    IN  [k \in keys |-> all[k]]

ProcessAllMomentum ==
    /\ momentum_signals' = Upsert(momentum_signals, MomentumRows)
    /\ pc' = "momentum"
    /\ UNCHANGED <<fact_tables, valuation_snapshots, derived_metrics,
                    valuation_signals, fundamental_scores, scorer_state, book,
                    later_tables, in_flight>>

\* ------------------------------------------ composite_signal_calculator.py
\* the eight features of a ticker at a date, in the order of feature_keys
FeatureRow(ticker, as_of_date) ==
    LET key == <<ticker, as_of_date>>
    IN  <<valuation_signals[key].valuation_signal,
          momentum_signals[key].momentum_3m,
          momentum_signals[key].momentum_6m,
          momentum_signals[key].momentum_12m,
          fundamental_scores[key].eps_growth,
          fundamental_scores[key].revenue_growth,
          fundamental_scores[key].roe,
          fundamental_scores[key].net_margin>>

\* get_composite_inputs: the tickers whose three signal rows join at the date
get_composite_inputs(as_of_date) ==
    { t \in Tickers :
        /\ <<t, as_of_date>> \in DOMAIN valuation_signals
        /\ <<t, as_of_date>> \in DOMAIN momentum_signals
        /\ <<t, as_of_date>> \in DOMAIN fundamental_scores }

\* the query has no ORDER BY: the rows come back in any order
RECURSIVE FetchOrders(_)
FetchOrders(S) ==
    IF S = {} THEN { <<>> }
    ELSE UNION { { Append(o, t) : o \in FetchOrders(S \ {t}) } : t \in S }

\* a list comprehension: the values f[1], ..., f[n], computed once
RECURSIVE ToList(_, _)
ToList(f, n) == IF n = 0 THEN <<>> ELSE Append(ToList(f, n - 1), f[n])

\* compute_zscores: (x - mean) / std, 0 when std is 0.  With a[i] =
\* n * x[i] - sum(x) the z-score is a[i] * sqrt(n / sum(a[j]^2)), unchanged
\* when every a[j] is divided by their common divisor; the model keeps it
\* in 1/1000, truncated
compute_zscores(arr) ==
    LET n == Len(arr)
        total == SumSeq(arr)
        a == ToList([i \in 1..n |-> n * arr[i] - total], n)
        g == GcdSeq(a)
        b == ToList([i \in 1..n |-> IF g = 0 THEN 0 ELSE a[i] \div g], n)
        q == SumSeq(ToList([i \in 1..n |-> b[i] * b[i]], n))
    IN  ToList([i \in 1..n |->
                  IF g = 0 THEN 0
                  ELSE IF b[i] >= 0 THEN ISqrt((b[i] * b[i] * n * 1000000) \div q)
                  ELSE 0 - ISqrt((b[i] * b[i] * n * 1000000) \div q)], n)

\* a variant of the filter that also loses the first fetched record
kept_tickers_skip_first(as_of_date, raw_records) ==
    SelectSeq(raw_records,
              LAMBDA t : /\ \A j \in 1..8 : FeatureRow(t, as_of_date)[j] # NULL
                         /\ t # raw_records[1])

\* the loop of process_quarter over raw_records: a row with a None among
\* its features is dropped, the others keep their fetch order
kept_tickers(as_of_date, raw_records) ==
    SelectSeq(raw_records,
              LAMBDA t : \A j \in 1..8 : FeatureRow(t, as_of_date)[j] # NULL)

\* the composite scores of the kept tickers: the sum of seven z-scores
\* minus the z-score of valuation_signal
composite_scores(as_of_date, tickers) ==
    LET total == Len(tickers)
        Column(j) == ToList([i \in 1..total |-> FeatureRow(tickers[i], as_of_date)[j]], total)
        z_valuation_signal == compute_zscores(Column(1))
        z_momentum_3m == compute_zscores(Column(2))
        z_momentum_6m == compute_zscores(Column(3))
        z_momentum_12m == compute_zscores(Column(4))
        z_eps_growth == compute_zscores(Column(5))
        z_revenue_growth == compute_zscores(Column(6))
        z_roe == compute_zscores(Column(7))
        z_net_margin == compute_zscores(Column(8))
    IN  ToList([i \in 1..total |->
                  z_eps_growth[i] + z_revenue_growth[i] + z_roe[i] + z_net_margin[i]
                    + z_momentum_3m[i] + z_momentum_6m[i] + z_momentum_12m[i]
                    - z_valuation_signal[i]], total)

\* a variant of the ranking that sorts ascending (reverse=False)
sorted_rank_ascending(score, i) ==
    1 + Cardinality({ j \in DOMAIN score : score[j] < score[i] })
      + Cardinality({ j \in DOMAIN score : j < i /\ score[j] = score[i] })

\* scores.sort(key=score, reverse=True) and enumerate(scores, start=1): the
\* position of entry i after the stable descending sort
sorted_rank(score, i) ==
    1 + Cardinality({ j \in DOMAIN score : score[j] > score[i] })
      + Cardinality({ j \in DOMAIN score : j < i /\ score[j] = score[i] })

\* round((total - rank) / (total - 1), 4) if total > 1 else 0
percentile_of(rank, total) ==
    IF total > 1 THEN RoundDiv((total - rank) * 10000, total - 1) ELSE 0

\* process_quarter up to data_to_save, for the rows fetched in the order
\* raw_records
process_quarter(as_of_date, raw_records) ==
    LET tickers == kept_tickers(as_of_date, raw_records)
        total == Len(tickers)
        score == composite_scores(as_of_date, tickers)
        row == ToList([i \in 1..total |->
                          [composite_score |-> score[i],
                           rank |-> sorted_rank(score, i),
                           percentile |-> percentile_of(sorted_rank(score, i), total)]],
                      total)
    IN  [k \in { <<tickers[i], as_of_date>> : i \in 1..total } |->
            row[CHOOSE i \in 1..total : tickers[i] = k[1]]]

\* one turn of the loop of process_all: process_quarter and save_scores
\* (an upsert; nothing is saved for an empty cohort)
ProcessQuarterStep ==
    LET n == IF composite_next = 0 THEN 1 ELSE composite_next
    IN  \E raw_records \in FetchOrders(get_composite_inputs(QEnd(n))) :
          /\ data_to_save' = process_quarter(QEnd(n), raw_records)
          /\ composite_signals' = Upsert(composite_signals, data_to_save')
          /\ composite_next' = IF n = NumQuarters THEN 0 ELSE n + 1
          /\ pc' = IF n = NumQuarters THEN "composite" ELSE "composite_run"
          /\ UNCHANGED <<fact_tables, valuation_snapshots, derived_metrics,
                          signal_tables, book,
                    later_tables, in_flight>>

\* ------------------------------------------------------ derived_metrics.py
\* get_tickers: the tickers of the three annual tables
MetricTickers ==
    { t \in Tickers :
        \/ DOMAIN income_statement_annual[t] # {}
        \/ DOMAIN balance_sheet_annual[t] # {}
        \/ DOMAIN cash_flow_annual[t] # {} }

\* the row calculate_metrics builds from the income statement of a period
\* LEFT JOINed with the balance sheet and the cash flow of the same period;
\* NoRow when any field is None
MetricRow(ticker, period_ending) ==
    LET i == income_statement_annual[ticker][period_ending]
    IN  IF \/ period_ending \notin DOMAIN balance_sheet_annual[ticker]
           \/ period_ending \notin DOMAIN cash_flow_annual[ticker]
        THEN NoRow
        ELSE LET b == balance_sheet_annual[ticker][period_ending]
                 c == cash_flow_annual[ticker][period_ending]
                 row == [eps |-> i.diluted_eps,
                         revenue |-> i.total_revenue,
                         net_income |-> i.net_income,
                         operating_income |-> i.operating_income,
                         stockholders_equity |-> b.stockholders_equity,
                         total_assets |-> b.total_assets,
                         total_debt |-> b.total_debt,
                         current_assets |-> b.current_assets,
                         current_liabilities |-> b.current_liabilities,
                         operating_cash_flow |-> c.operating_cash_flow,
                         free_cash_flow |-> c.free_cash_flow,
                         dividends_paid |-> c.dividends_paid]
             IN  IF \E f \in DOMAIN row : row[f] = NULL THEN NoRow ELSE row

\* the period_endings calculate_metrics returns a metric for
calculate_metrics(ticker) ==
    { p \in DOMAIN income_statement_annual[ticker] : MetricRow(ticker, p) # NoRow }

\* fiscal_year = period_ending.year - 1
fiscal_year_of(period_ending) == Year(period_ending) - 1

\* save_metrics for the metrics of one (ticker, fiscal_year), executed in
\* the order of period_ending: INSERT ... ON CONFLICT (ticker, fiscal_year)
\* DO UPDATE sets the twelve values and leaves period_ending, eps_cagr_2y
\* and target_pe of a row that exists
save_metrics(ticker, fiscal_year) ==
    LET periods == { p \in calculate_metrics(ticker) : fiscal_year_of(p) = fiscal_year }
        first == KthSmallest(periods, 1, 0, Never)
        last == Latest(periods, Never)
        key == <<ticker, fiscal_year>>
        kept == IF key \in DOMAIN derived_metrics
                THEN [period_ending |-> derived_metrics[key].period_ending,
                      eps_cagr_2y |-> derived_metrics[key].eps_cagr_2y,
                      target_pe |-> derived_metrics[key].target_pe]
                ELSE [period_ending |-> first, eps_cagr_2y |-> NULL, target_pe |-> NULL]
    IN  kept @@ MetricRow(ticker, last)

\* process_all_tickers
ProcessAllTickers ==
    LET saved == UNION { { <<t, fiscal_year_of(p)>> : p \in calculate_metrics(t) } :
                           t \in MetricTickers }
    IN  /\ derived_metrics' =
              Upsert(derived_metrics, [k \in saved |-> save_metrics(k[1], k[2])])
        /\ pc' = "metrics"
        /\ UNCHANGED <<fact_tables, valuation_snapshots, signal_tables, scorer_state,
                        book,
                    later_tables, in_flight>>

\* --------------------------------------------------- eps_cagr_calculator.py
\* fetch_eps_data: the fiscal years of a ticker with a non-null eps, sorted
FiscalYears(ticker) ==
    { k[2] : k \in { x \in DOMAIN derived_metrics :
                        x[1] = ticker /\ derived_metrics[x].eps # NULL } }

\* ((eps / eps_2y_ago) ** (1 / 2)) - 1, in 1/1000, truncated
Cagr(eps, eps_2y_ago) == ISqrt((eps * 1000000) \div eps_2y_ago) - 1000

\* the updates of compute_eps_cagr: for the third fiscal year on, the CAGR
\* against the fiscal year two places before it in the sorted list, when
\* both EPS are positive
CagrUpdates ==
    LET Prev(k) ==
            LET years == FiscalYears(k[1])
                i == Cardinality({ y \in years : y <= k[2] })
            IN  IF i < 3 THEN NULL
                ELSE KthSmallest(years, i - 2, BaseYear - 1, Year(Never))
        keys == { k \in DOMAIN derived_metrics :
                    /\ derived_metrics[k].eps # NULL
                    /\ Prev(k) # NULL
                    /\ derived_metrics[k].eps > 0
                    /\ derived_metrics[<<k[1], Prev(k)>>].eps > 0 }
    IN  [k \in keys |->
            Cagr(derived_metrics[k].eps, derived_metrics[<<k[1], Prev(k)>>].eps)]

\* compute_eps_cagr with update_eps_cagr; a row without an update keeps the
\* eps_cagr_2y it has
ComputeEpsCagr ==
    /\ derived_metrics' =
          [k \in DOMAIN derived_metrics |->
              IF k \in DOMAIN CagrUpdates
              THEN [derived_metrics[k] EXCEPT !.eps_cagr_2y = CagrUpdates[k]]
              ELSE derived_metrics[k]]
    /\ pc' = "cagr"
    /\ UNCHANGED <<fact_tables, valuation_snapshots, signal_tables, scorer_state,
                    book,
                    later_tables, in_flight>>

\* fetch_eps_data: the eps of every (ticker, fiscal_year) with a non-null
\* eps, as the SELECT returns them
fetch_eps_data ==
    [k \in { x \in DOMAIN derived_metrics : derived_metrics[x].eps # NULL } |->
        derived_metrics[k].eps]

\* the list updates compute_eps_cagr builds in the application from the
\* fetched data
updates(data) ==
    LET Prev(k) ==
            LET years == { x[2] : x \in { y \in DOMAIN data : y[1] = k[1] } }
                i == Cardinality({ y \in years : y <= k[2] })
            IN  IF i < 3 THEN NULL
                ELSE KthSmallest(years, i - 2, BaseYear - 1, Year(Never))
        keys == { k \in DOMAIN data :
                    /\ Prev(k) # NULL
                    /\ data[k] > 0
                    /\ data[<<k[1], Prev(k)>>] > 0 }
    IN  [k \in keys |-> Cagr(data[k], data[<<k[1], Prev(k)>>])]

\* compute_eps_cagr as the two statements it sends to the store: the SELECT
\* of fetch_eps_data (its own connection) ...
FetchEpsData ==
    /\ eps_data = NoFetch
    /\ eps_data' = [rows |-> fetch_eps_data]
    /\ pc' = "fetch"
    /\ UNCHANGED <<fact_tables, valuation_snapshots, derived_metrics, signal_tables,
                    scorer_state, book, later_tables, insert_failed>>

\* ... and, after the updates are computed in the application, the UPDATE
\* of update_eps_cagr, which sets eps_cagr_2y of the rows in the list
UpdateEpsCagr ==
    /\ eps_data # NoFetch
    /\ derived_metrics' =
          [k \in DOMAIN derived_metrics |->
              IF k \in DOMAIN updates(eps_data.rows)
              THEN [derived_metrics[k] EXCEPT !.eps_cagr_2y = updates(eps_data.rows)[k]]
              ELSE derived_metrics[k]]
    /\ eps_data' = NoFetch
    /\ pc' = "cagr"
    /\ UNCHANGED <<fact_tables, valuation_snapshots, signal_tables, scorer_state,
                    book, later_tables, insert_failed>>

\* ----------------------------------------------------- compute_target_pe.py
\* the snapshots fetch_required_records joins to a derived_metrics row
EligibleSnapshots(k) ==
    { D \in quarter_ends :
        /\ <<k[1], D>> \in DOMAIN valuation_snapshots
        /\ valuation_snapshots[<<k[1], D>>].ttm_eps > 0
        /\ valuation_snapshots[<<k[1], D>>].entry_price > 0
        /\ D <= derived_metrics[k].period_ending }

\* fetch_required_records: the rows without a target_pe that join a snapshot
fetch_required_records ==
    { k \in DOMAIN derived_metrics :
        derived_metrics[k].target_pe = NULL /\ EligibleSnapshots(k) # {} }

\* the query has no ORDER BY and every fetched row is an UPDATE of its
\* derived_metrics row: for each row the snapshot fetched last wins
RECURSIVE LastFetched(_)
LastFetched(keys) ==
    IF keys = {} THEN { EmptyTable }
    ELSE LET k == CHOOSE x \in keys : TRUE
         IN  { [x \in (DOMAIN f) \cup {k} |-> IF x = k THEN D ELSE f[x]] :
                 f \in LastFetched(keys \ {k}), D \in EligibleSnapshots(k) }

\* round(entry_price / ttm_eps, 2)
TargetPe(snapshot) == RoundDiv(snapshot.entry_price * 10000, snapshot.ttm_eps)

\* run: fetch_required_records and compute_and_save
ComputeTargetPe ==
    /\ \E last \in LastFetched(fetch_required_records) :
         derived_metrics' =
            [k \in DOMAIN derived_metrics |->
                IF k \in DOMAIN last
                THEN [derived_metrics[k] EXCEPT
                        !.target_pe = TargetPe(valuation_snapshots[<<k[1], last[k]>>])]
                ELSE derived_metrics[k]]
    /\ pc' = "target_pe"
    /\ UNCHANGED <<fact_tables, valuation_snapshots, signal_tables, scorer_state,
                    book,
                    later_tables, in_flight>>

\* ------------------------------------------- valuation_signal_calculator.py
\* get_tickers: SELECT DISTINCT ticker FROM valuation_snapshots
ValuationTickers == { k[1] : k \in DOMAIN valuation_snapshots }

\* get_valuation_inputs: the derived_metrics rows of the ticker whose
\* period_ending is the date, when the ticker has a snapshot at the date
get_valuation_inputs(ticker, as_of_date) ==
    IF <<ticker, as_of_date>> \notin DOMAIN valuation_snapshots THEN {}
    ELSE { k \in DOMAIN derived_metrics :
             k[1] = ticker /\ derived_metrics[k].period_ending = as_of_date }

\* get_avg_pe_1y: AVG(ttm_pe) over the snapshots of the last 365 days
get_avg_pe_1y(ticker, as_of_date) ==
    LET dates == { D \in quarter_ends :
                     /\ as_of_date - 365 <= D /\ D <= as_of_date
                     /\ <<ticker, D>> \in DOMAIN valuation_snapshots
                     /\ valuation_snapshots[<<ticker, D>>].ttm_pe # NULL }
        total == RangeSum([D \in dates |-> valuation_snapshots[<<ticker, D>>].ttm_pe],
                          dates, as_of_date - 365, as_of_date)
    \* round(avg_pe_1y, 2) if avg_pe_1y else None
    IN  IF dates = {} \/ total = 0 THEN NULL ELSE RoundDiv(total, Cardinality(dates))

\* the row with the flag taken from the rounded signal
ValuationRowFlagRounded(ticker, qend, k) ==
    LET ttm_pe == valuation_snapshots[<<ticker, qend>>].ttm_pe
        target_pe == derived_metrics[k].target_pe
        valuation_signal == RoundDiv((ttm_pe - target_pe) * 10000, target_pe)
    IN  IF ttm_pe = NULL \/ target_pe = NULL THEN NoRow
        ELSE [ttm_pe |-> ttm_pe,
              target_pe |-> target_pe,
              valuation_signal |-> valuation_signal,
              peg_ratio |-> NULL,
              avg_pe_1y |-> get_avg_pe_1y(ticker, qend),
              undervalued_flag |-> valuation_signal < 0 - 2000]

\* the row process_ticker appends for a quarter end from the inputs joined
\* to the derived_metrics row k, or NoRow
ValuationRow(ticker, qend, k) ==
    LET ttm_pe == valuation_snapshots[<<ticker, qend>>].ttm_pe
        target_pe == derived_metrics[k].target_pe
        eps_cagr == derived_metrics[k].eps_cagr_2y
        avg_pe_1y == get_avg_pe_1y(ticker, qend)
        \* round(ttm_pe / eps_cagr, 4), None without a CAGR and for a quotient of 0
        peg_ratio == IF eps_cagr # NULL /\ eps_cagr # 0 /\ ttm_pe # 0
                     THEN RoundDiv(ttm_pe * 100000, eps_cagr) ELSE NULL
    IN  IF ttm_pe = NULL \/ target_pe = NULL THEN NoRow
        ELSE [ttm_pe |-> ttm_pe,
              target_pe |-> target_pe,
              \* round(ttm_pe / target_pe - 1, 4)
              valuation_signal |-> RoundDiv((ttm_pe - target_pe) * 10000, target_pe),
              peg_ratio |-> peg_ratio,
              avg_pe_1y |-> avg_pe_1y,
              \* (ttm_pe / target_pe - 1) < -0.2, before rounding
              undervalued_flag |->
                  IF target_pe > 0 THEN 10 * (ttm_pe - target_pe) < 0 - 2 * target_pe
                  ELSE 10 * (ttm_pe - target_pe) > 0 - 2 * target_pe]

\* ttm_pe / target_pe raises for a target_pe of 0; process_all catches it
\* and nothing of the ticker is saved
ValuationRaises(ticker) ==
    \E qend \in quarter_ends, k \in DOMAIN derived_metrics :
        /\ k \in get_valuation_inputs(ticker, qend)
        /\ valuation_snapshots[<<ticker, qend>>].ttm_pe # NULL
        /\ derived_metrics[k].target_pe = 0

\* the units process_all reaches: the quarter ends with joined inputs of the
\* tickers whose process_ticker does not raise
ValuationUnits ==
    { x \in ValuationTickers \X quarter_ends :
        /\ ~ValuationRaises(x[1])
        /\ get_valuation_inputs(x[1], x[2]) # {} }

\* fetchone takes one of the joined rows of each unit
RECURSIVE FetchedOne(_)
FetchedOne(units) ==
    IF units = {} THEN { EmptyTable }
    ELSE LET x == CHOOSE y \in units : TRUE
         IN  { [y \in (DOMAIN f) \cup {x} |-> IF y = x THEN k ELSE f[y]] :
                 f \in FetchedOne(units \ {x}),
                 k \in get_valuation_inputs(x[1], x[2]) }

\* the rows of a run, for the joined row one[x] of each unit x
ValuationRows(one) ==
    [x \in { y \in DOMAIN one : ValuationRow(y[1], y[2], one[y]) # NoRow } |->
        ValuationRow(x[1], x[2], one[x])]

\* process_all: process_ticker and save_signals for every ticker
ProcessAllValuation ==
    /\ \E one \in FetchedOne(ValuationUnits) :
         valuation_signals' = Upsert(valuation_signals, ValuationRows(one))
    /\ pc' = "valuation"
    /\ UNCHANGED <<fact_tables, valuation_snapshots, derived_metrics,
                    momentum_signals, fundamental_scores, scorer_state, book,
                    later_tables, in_flight>>

\* ------------------------------------------------------ projected_returns.py
\* the subquery of get_input_data: the fiscal years of a ticker that have an
\* eps_cagr_2y and a target_pe
ProjectableYears(ticker) ==
    { k[2] : k \in { x \in DOMAIN derived_metrics :
                        /\ x[1] = ticker
                        /\ derived_metrics[x].eps_cagr_2y # NULL
                        /\ derived_metrics[x].target_pe # NULL } }

\* DISTINCT ON (ticker) ... ORDER BY ticker, fiscal_year DESC: the row of the
\* latest of these fiscal years
LatestProjectable(ticker) ==
    <<ticker, CHOOSE y \in ProjectableYears(ticker) :
                \A z \in ProjectableYears(ticker) : z <= y>>

\* get_input_data: every snapshot with a positive ttm_eps and entry_price of
\* a ticker that has such a row, joined to it on the ticker alone
get_input_data ==
    { x \in DOMAIN valuation_snapshots :
        /\ ProjectableYears(x[1]) # {}
        /\ valuation_snapshots[x].ttm_eps > 0
        /\ valuation_snapshots[x].entry_price > 0 }

\* compute_projections for one input row.  projected_eps is
\* ttm_eps * (1 + eps_cagr) ** 2 to four places (ttm_eps is a sum of EPS in
\* cents), projected_price the product with target_pe to two places, taken
\* from the EPS to four places, projected_return the quotient by the entry
\* price minus 1 to four places
Projection(snapshot, metrics) ==
    LET growth == 1000 + metrics.eps_cagr_2y
        projected_eps == RoundDiv((snapshot.ttm_eps \div 100) * growth * growth, 10000)
        projected_price == RoundDiv(projected_eps * metrics.target_pe, 10000)
    IN  [projected_eps |-> projected_eps,
         projected_price |-> projected_price,
         projected_return |->
             RoundDiv((projected_price - snapshot.entry_price) * 10000,
                      snapshot.entry_price),
         eps_cagr_used |-> metrics.eps_cagr_2y,
         target_pe_used |-> metrics.target_pe]

compute_projections(rows) ==
    [x \in rows |->
        Projection(valuation_snapshots[x], derived_metrics[LatestProjectable(x[1])])]

\* run: get_input_data, compute_projections and save_to_db
RunProjectedReturns ==
    /\ projected_returns' = Upsert(projected_returns, compute_projections(get_input_data))
    /\ pc' = "projected"
    /\ UNCHANGED <<fact_tables, valuation_snapshots, derived_metrics, signal_tables,
                    scorer_state, book, backtest_detail, backtest_summary, in_flight>>

\* ----------------------------------------- fundamental_score_calculator.py
\* get_tickers: SELECT DISTINCT ticker FROM income_statement_quarterly
FundamentalTickers == { t \in Tickers : DOMAIN income_statement_quarterly[t] # {} }

\* the latest non-null value of a column with period_ending <= period, or
\* < period when strict
LatestValue(facts, column, period, strict) ==
    LET periods == { p \in DOMAIN facts :
                       /\ IF strict THEN p < period ELSE p <= period
                       /\ facts[p][column] # NULL }
    IN  IF periods = {} THEN NULL ELSE facts[Latest(periods, period)][column]

get_quarter_value(facts, column, period) == LatestValue(facts, column, period, FALSE)

get_previous_quarter_value(facts, column, period) ==
    LatestValue(facts, column, period, TRUE)

\* round(x / y, 4)
Ratio4(x, y) == RoundDiv(x * 10000, y)

\* the row process_all appends for one (ticker, quarter end), or NoRow
FundamentalRow(ticker, qend) ==
    LET eps == get_quarter_value(income_statement_quarterly[ticker], "basic_eps", qend)
        eps_prev == get_previous_quarter_value(income_statement_quarterly[ticker],
                                               "basic_eps", qend)
        revenue == get_quarter_value(income_statement_quarterly[ticker],
                                     "total_revenue", qend)
        revenue_prev == get_previous_quarter_value(income_statement_quarterly[ticker],
                                                   "total_revenue", qend)
        net_income == get_quarter_value(income_statement_quarterly[ticker],
                                        "net_income", qend)
        equity == get_quarter_value(balance_sheet_quarterly[ticker],
                                    "stockholders_equity", qend)
        total_debt == get_quarter_value(balance_sheet_quarterly[ticker], "total_debt", qend)
        fcf == get_quarter_value(cash_flow_quarterly[ticker], "free_cash_flow", qend)
    IN  IF NULL \in {eps, eps_prev, revenue, revenue_prev, net_income, equity,
                     total_debt, fcf}
        THEN NoRow
        ELSE IF equity = 0 \/ revenue = 0 THEN NoRow
        \* a growth of None makes round() raise, and the row is skipped
        ELSE IF eps_prev = 0 \/ revenue_prev = 0 THEN NoRow
        ELSE [eps_growth |-> RoundDiv((eps - eps_prev) * 10000, Abs(eps_prev)),
              revenue_growth |->
                  RoundDiv((revenue - revenue_prev) * 10000, Abs(revenue_prev)),
              roe |-> Ratio4(net_income, equity),
              debt_to_equity |-> Ratio4(total_debt, equity),
              net_margin |-> Ratio4(net_income, revenue),
              fcf_margin |-> Ratio4(fcf, revenue)]

FundamentalRows ==
    LET all == [k \in FundamentalTickers \X quarter_ends |-> FundamentalRow(k[1], k[2])]
        keys == { k \in DOMAIN all : all[k] # NoRow }
    IN  [k \in keys |-> all[k]]

ProcessAllFundamental ==
    /\ fundamental_scores' = Upsert(fundamental_scores, FundamentalRows)
    /\ pc' = "fundamental"
    /\ UNCHANGED <<fact_tables, valuation_snapshots, derived_metrics,
                    valuation_signals, momentum_signals, scorer_state, book,
                    later_tables, in_flight>>

\* ------------------------------------------- backtest_composite_signals.py
holding_periods == {30, 90, 180}
top_n == 10

\* a function as the table of its values
Table(f) == f @@ EmptyTable

\* the sum of f over a finite set
RECURSIVE TickerSum(_, _)
TickerSum(f, S) ==
    IF S = {} THEN 0
    ELSE LET t == CHOOSE x \in S : TRUE IN f[t] + TickerSum(f, S \ {t})

\* get_composite_scores grouped by as_of_date (every quarter end is on or
\* after 2015-01-01): the dates, and the tickers of a date
BacktestDates == { k[2] : k \in DOMAIN composite_signals }

Entries(as_of_date) ==
    { k[1] : k \in { x \in DOMAIN composite_signals : x[2] = as_of_date } }

\* the query has no ORDER BY: the rows of a date come back in an order that
\* is not specified.  The evaluator depends on the order only where scores
\* or returns tie; pos[t] is the place of ticker t in the fetched rows, and
\* both directions of a tie are taken
FetchPositions(S) == { [t \in S |-> t], [t \in S |-> 0 - t] }

\* get_price: the price of the first session with date >= dt
get_price(ticker, dt) ==
    LET days == { d \in DOMAIN price_history[ticker] : d >= dt }
    IN  IF days = {} THEN NULL
        ELSE price_history[ticker][CHOOSE d \in days : \A e \in days : d <= e].price

\* if price_start and price_end and price_start != 0
has_return(ticker, as_of_date, h) ==
    LET price_start == get_price(ticker, as_of_date)
        price_end == get_price(ticker, as_of_date + h)
    IN  price_start # NULL /\ price_start # 0 /\ price_end # NULL /\ price_end # 0

\* ret = (price_end - price_start) / price_start as the fraction num / den
actual_return(ticker, as_of_date, h) ==
    LET price_start == get_price(ticker, as_of_date)
        price_end == get_price(ticker, as_of_date + h)
    IN  [num |-> price_end - price_start, den |-> price_start]

\* the list actual_returns of a (date, holding period), by ticker
actual_returns(as_of_date, h) ==
    LET valid == { t \in Entries(as_of_date) : has_return(t, as_of_date, h) }
    IN  Table([t \in valid |-> actual_return(t, as_of_date, h)])

\* a > b and a = b for two returns
RetGreater(a, b) ==
    IF (a.den > 0) = (b.den > 0) THEN a.num * b.den > b.num * a.den
    ELSE a.num * b.den < b.num * a.den

RetEqual(a, b) == a.num * b.den = b.num * a.den

\* actual_returns.sort(key=ret, reverse=True) and enumerate: the place of a
\* ticker after the stable descending sort of the list
actual_rank(returns, pos, t) ==
    1 + Cardinality({ u \in DOMAIN returns : RetGreater(returns[u], returns[t]) })
      + Cardinality({ u \in DOMAIN returns :
                        RetEqual(returns[u], returns[t]) /\ pos[u] < pos[t] })

\* the first top_n of sorted(score_map.items(), key=-score), as a set
top_n_tickers(as_of_date, pos) ==
    LET score(t) == composite_signals[<<t, as_of_date>>].composite_score
        cohort == Entries(as_of_date)
    IN  { t \in cohort :
            Cardinality({ u \in cohort : score(u) > score(t) })
              + Cardinality({ u \in cohort : score(u) = score(t) /\ pos[u] < pos[t] })
            < top_n }

\* the first top_n of sorted(score_map.items(), key=score), as a set
bottom_n_tickers(as_of_date, pos) ==
    LET score(t) == composite_signals[<<t, as_of_date>>].composite_score
        cohort == Entries(as_of_date)
    IN  { t \in cohort :
            Cardinality({ u \in cohort : score(u) < score(t) })
              + Cardinality({ u \in cohort : score(u) = score(t) /\ pos[u] < pos[t] })
            < top_n }

\* scipy.stats.spearmanr ranks both lists with average ranks; twice the
\* average rank of an entry minus twice the mean rank
CentredRank(values, t) ==
    2 * Cardinality({ u \in DOMAIN values : values[u] < values[t] })
      + Cardinality({ u \in DOMAIN values : values[u] = values[t] })
      - Cardinality(DOMAIN values)

\* round(spearmanr(pred_ranks, actual_ranks).correlation, 4) in 1/10000, the
\* Pearson correlation of the ranks; NULL for nan (a constant list).  The
\* square root is exact when no rank ties and to five digits otherwise
spearman_corr(pred_ranks, actual_ranks) ==
    LET S == DOMAIN pred_ranks
        x == Table([t \in S |-> CentredRank(pred_ranks, t)])
        y == Table([t \in S |-> CentredRank(actual_ranks, t)])
        sxx == TickerSum([t \in S |-> x[t] * x[t]], S)
        syy == TickerSum([t \in S |-> y[t] * y[t]], S)
        sxy == TickerSum([t \in S |-> x[t] * y[t]], S)
        root == ISqrt(sxx * syy)
    IN  IF sxx = 0 \/ syy = 0 THEN NULL
        ELSE IF root * root = sxx * syy THEN RoundDiv(sxy * 10000, root)
        ELSE RoundDiv(sxy * 100000, ISqrt(sxx * syy * 100))

\* round(np.mean(returns of a basket), 4) in 1/10000, each return taken in
\* millionths; NULL for the nan of an empty basket
basket_return(returns, basket) ==
    IF basket = {} THEN NULL
    ELSE RoundDiv(TickerSum([t \in basket |->
                                RoundDiv(returns[t].num * 1000000, returns[t].den)], basket),
                  Cardinality(basket) * 100)

\* the detail rows of a (date, holding period), by ticker
detail_rows(as_of_date, h, pos) ==
    LET returns == actual_returns(as_of_date, h)
        top == top_n_tickers(as_of_date, pos)
        bottom == bottom_n_tickers(as_of_date, pos)
    IN  Table([t \in DOMAIN returns |->
            [composite_score |-> composite_signals[<<t, as_of_date>>].composite_score,
             predicted_rank |-> composite_signals[<<t, as_of_date>>].rank,
             actual_return |-> returns[t],
             actual_rank |-> actual_rank(returns, pos, t),
             matched_top_n |-> t \in top,
             matched_bottom_n |-> t \in bottom]])

\* the summary row of a (date, holding period) from its detail rows
summary_row(rows) ==
    LET S == DOMAIN rows
        returns == Table([t \in S |-> rows[t].actual_return])
    IN  [spearman_corr |-> spearman_corr(Table([t \in S |-> rows[t].predicted_rank]),
                                         Table([t \in S |-> rows[t].actual_rank])),
         top_n_overlap |-> Cardinality({ t \in S : rows[t].matched_top_n }),
         n_eligible |-> Cardinality(S),
         avg_return_top |-> basket_return(returns, { t \in S : rows[t].matched_top_n }),
         avg_return_bottom |-> basket_return(returns, { t \in S : rows[t].matched_bottom_n })]

\* save_detail: ON CONFLICT (as_of_date, holding_days, ticker) DO UPDATE sets
\* the realized columns and leaves composite_score and predicted_rank
save_detail(rows) ==
    [k \in (DOMAIN backtest_detail) \cup (DOMAIN rows) |->
        IF k \notin DOMAIN rows THEN backtest_detail[k]
        ELSE IF k \notin DOMAIN backtest_detail THEN rows[k]
        ELSE [rows[k] EXCEPT
                !.composite_score = backtest_detail[k].composite_score,
                !.predicted_rank = backtest_detail[k].predicted_rank]]

\* a variant of the threshold that asks for top_n returns only
enough_returns_top_n(n) == n >= top_n

\* if len(actual_returns) < self.top_n * 2: continue
enough_returns(n) == n >= top_n * 2

\* the body of run for one order of the fetched rows: every (date, holding
\* period) with at least 2 * top_n returns gets its detail rows and one
\* summary row, the others are skipped
run(pos) ==
    LET kept == { c \in BacktestDates \X holding_periods :
                    enough_returns(Cardinality(DOMAIN actual_returns(c[1], c[2]))) }
        details == Table([c \in kept |-> detail_rows(c[1], c[2], pos)])
    IN  [detail |-> [k \in UNION { { <<c[1], c[2], t>> : t \in DOMAIN details[c] } :
                                     c \in kept } |->
                        details[<<k[1], k[2]>>][k[3]]],
         summary |-> [k \in { <<c[1], c[2], top_n>> : c \in kept } |->
                        summary_row(details[<<k[1], k[2]>>])]]

\* run, with save_detail and save_summary
RunBacktest ==
    /\ \E pos \in FetchPositions(UNION { Entries(D) : D \in BacktestDates }) :
         /\ backtest_detail' = save_detail(run(pos).detail)
         /\ backtest_summary' = Upsert(backtest_summary, run(pos).summary)
    /\ pc' = "backtest"
    /\ UNCHANGED <<fact_tables, valuation_snapshots, derived_metrics, signal_tables,
                    scorer_state, book, projected_returns, in_flight>>

\* ------------------------------------------------------------ input worlds
\* a price history over the sessions S; the price of a session tells the
\* session (base + day), so a stored return identifies the session it used
PriceWorld(S, base) ==
    [d \in S |-> [price |-> base + d, volume |-> 100 + (d % 5)]]

\* the days first..last without the gap_len days from gap_start on
Sessions(first, last, gap_start, gap_len) ==
    { d \in first..last : d < gap_start \/ d >= gap_start + gap_len }

\* the sessions of S that fall on the first five days of a week
Weekdays(S) == { d \in S : d % 7 < 5 }

\* load_price_history.insert_price_data: INSERT ... ON CONFLICT (ticker,
\* date) DO NOTHING; a stored session is never changed
insert_price_data(ticker, rows) ==
    /\ price_history' =
          [price_history EXCEPT ![ticker] =
              [d \in (DOMAIN rows) \cup (DOMAIN @) |->
                  IF d \in DOMAIN @ THEN @[d] ELSE rows[d]]]
    /\ pc' = "load"

\* a quarterly income statement with the given EPS
QFact(eps) ==
    [diluted_eps |-> eps, basic_eps |-> eps, total_revenue |-> 1000,
     net_income |-> 100]

\* EPS facts of the store, in 1/100
EpsValues == {NULL, -100, 100}

\* every assignment of a fact (or none) to each quarter end
QuarterlyWorlds ==
    UNION { [P -> { QFact(e) : e \in EpsValues }] :
              P \in SUBSET { QEnd(n) : n \in 1..WorldQuarters } }

SnapPriceWorlds ==
    { PriceWorld(S, b) : S \in {{}, {200}, {200, 300}}, b \in {-199, 1000} }

\* the facts and prices of a ticker other than the first: none, or two
\* quarters and a price
OtherFacts == { EmptyTable, [p \in {QEnd(1), QEnd(2)} |-> QFact(100)] }

\* no backtest row, no failed insert and no compute_eps_cagr under way
LaterEmpty ==
    /\ projected_returns = EmptyTable
    /\ backtest_detail = EmptyTable
    /\ backtest_summary = EmptyTable
    /\ insert_failed = {}
    /\ eps_data = NoFetch

\* no derived row yet, no scorer running
DerivedEmpty ==
    /\ LaterEmpty
    /\ valuation_signals = EmptyTable
    /\ momentum_signals = EmptyTable
    /\ fundamental_scores = EmptyTable
    /\ composite_signals = EmptyTable
    /\ composite_next = 0
    /\ data_to_save = EmptyTable
    /\ derived_metrics = EmptyTable
    /\ feature_changes = 0
    /\ runs = 0
    /\ horizon = Never

\* no statement other than the quarterly income statements
OtherStatementsEmpty ==
    /\ balance_sheet_quarterly = [t \in Tickers |-> EmptyTable]
    /\ cash_flow_quarterly = [t \in Tickers |-> EmptyTable]
    /\ income_statement_annual = [t \in Tickers |-> EmptyTable]
    /\ balance_sheet_annual = [t \in Tickers |-> EmptyTable]
    /\ cash_flow_annual = [t \in Tickers |-> EmptyTable]

\* ----------------------------------------- the snapshot builder on its own
InitSnap ==
    /\ income_statement_quarterly \in
          { [t \in Tickers |-> IF t = 1 THEN w ELSE o[t]] :
              w \in QuarterlyWorlds,
              o \in { [t \in Tickers |-> IF t = 2 THEN f ELSE EmptyTable] :
                         f \in OtherFacts } }
    /\ price_history \in
          { [t \in Tickers |-> IF t = 1 THEN w ELSE PriceWorld({150}, 2000)] :
              w \in SnapPriceWorlds }
    /\ OtherStatementsEmpty
    /\ valuation_snapshots = EmptyTable
    /\ DerivedEmpty
    /\ pc = "init"

NextSnap == ProcessAllSnapshots

SpecSnap == InitSnap /\ [][NextSnap]_vars

\* ------------------------- the snapshot builder with a failing insert
\* every ticker has no facts or two quarters of them, and one of two price
\* histories
InitInsertError ==
    /\ income_statement_quarterly \in [Tickers -> OtherFacts]
    /\ price_history \in
          [Tickers -> { PriceWorld({150}, 2000), PriceWorld({150, 250}, 1000) }]
    /\ OtherStatementsEmpty
    /\ valuation_snapshots = EmptyTable
    /\ DerivedEmpty
    /\ pc = "init"

\* a run of the builder ends with or without an error of the database
NextInsertError ==
    \/ /\ ProcessAllSnapshots
       /\ insert_failed = {}
    \/ /\ ProcessAllSnapshotsInsertError
       /\ insert_failed = {}

SpecInsertError == InitInsertError /\ [][NextInsertError]_vars

\* --------------------------------------- the momentum calculator on its own
LastDay == QEnd(WorldQuarters)

MomFirstDays == {1, LastDay - 342, LastDay - 299, LastDay - 150}
MomLastDays == {LastDay - 125, LastDay - 91, LastDay}
MomGaps == {<<0, 0>>, <<LastDay - 155, 105>>, <<LastDay - 124, 124>>}

MomPriceWorlds ==
    { PriceWorld(Sessions(f, l, g[1], g[2]), 1000) :
        f \in MomFirstDays, l \in MomLastDays, g \in MomGaps }
    \cup { PriceWorld(Weekdays(Sessions(f, LastDay, 0, 0)), 1000) : f \in MomFirstDays }

InitMom ==
    /\ price_history \in
          { [t \in Tickers |-> IF t = 1 THEN w ELSE o[t]] :
              w \in MomPriceWorlds,
              o \in { [t \in Tickers |-> IF t = 2 THEN h ELSE EmptyTable] :
                         h \in { EmptyTable,
                                  PriceWorld(LastDay - 300 .. LastDay - 1, 500) } } }
    /\ income_statement_quarterly = [t \in Tickers |-> EmptyTable]
    /\ OtherStatementsEmpty
    /\ valuation_snapshots = EmptyTable
    /\ DerivedEmpty
    /\ pc = "init"

\* the loader appends the sessions up to a later day
LoadMorePrices ==
    \E t \in Tickers, l \in MomLastDays :
        /\ DOMAIN price_history[t] # {}
        /\ \A d \in DOMAIN price_history[t] : d < l
        /\ insert_price_data(t, PriceWorld(l - 40 .. l, 1000))
        /\ UNCHANGED <<statements, valuation_snapshots, derived_metrics,
                        signal_tables, scorer_state, book,
                    later_tables, in_flight>>

NextMom == ProcessAllMomentum \/ LoadMorePrices

SpecMom == InitMom /\ [][NextMom]_vars

\* ---------------------------------------- the composite scorer on its own
MaxFeatureChanges == 1

\* the signal rows of one ticker at one date, from a feature vector
ValuationSignalRow(v) ==
    [ttm_pe |-> 1000, target_pe |-> 1000, valuation_signal |-> v[1],
     peg_ratio |-> NULL, avg_pe_1y |-> 1000, undervalued_flag |-> FALSE]

MomentumSignalRow(v) ==
    [momentum_3m |-> v[2], momentum_6m |-> v[3], momentum_12m |-> v[4],
     avg_volume_3m |-> 100]

FundamentalScoreRow(v) ==
    [eps_growth |-> v[5], revenue_growth |-> v[6], roe |-> v[7],
     debt_to_equity |-> 5000, net_margin |-> v[8], fcf_margin |-> 1000]

\* what the store holds for the first ticker at the cohort date: a feature
\* vector, complete or with a null feature
FeatureOptions ==
    { <<1, 1, 1, 1, 1, 1, 1, 1>>,
      <<1, 1, 2, 1, 1, 1, 1, 1>>,
      <<1, 1, 1, 1, NULL, 1, 1, 1>> }

\* the options of the second ticker; each ticker after it has a complete
\* vector of its own
SecondOptions == { <<1, 1, 1, 1, 1, 1, 1, 1>>, <<3, 1, 1, 1, 1, 1, 1, 1>> }
RestOption(t) == <<1, 1, 1, t, 1, 1, 1, 1>>

\* what a store-side change turns the rows of a ticker into: <<>> when its
\* momentum row goes away and the three tables do not join any more, or a
\* vector with a null feature
ChangeOptions == { <<>>, <<1, 1, 1, 1, NULL, 1, 1, 1>> }

CohortDate == QEnd(2)
OtherDate == QEnd(3)

\* the three signal tables for an assignment of options to tickers at
\* CohortDate; the first two tickers also have rows at OtherDate, with the
\* same features
SignalWorld(assign) ==
    LET full == <<2, 2, 2, 2, 2, 2, 2, 2>>
        at1 == { <<t, CohortDate>> : t \in Tickers }
        at2 == { <<t, OtherDate>> : t \in Tickers \cap {1, 2} }
        Vec(k) == IF k[2] = OtherDate THEN full
                  ELSE IF assign[k[1]] = <<>> THEN full ELSE assign[k[1]]
    IN  [vs |-> [k \in at1 \cup at2 |-> ValuationSignalRow(Vec(k))],
         ms |-> [k \in { x \in at1 : assign[x[1]] # <<>> } \cup at2 |->
                    MomentumSignalRow(Vec(k))],
         fs |-> [k \in at1 \cup at2 |-> FundamentalScoreRow(Vec(k))]]

InitScorer ==
    /\ \E first \in FeatureOptions, second \in SecondOptions :
         LET assign == [t \in Tickers |->
                          IF t = 1 THEN first ELSE IF t = 2 THEN second ELSE RestOption(t)]
         IN
         /\ valuation_signals = SignalWorld(assign).vs
         /\ momentum_signals = SignalWorld(assign).ms
         /\ fundamental_scores = SignalWorld(assign).fs
    /\ price_history = [t \in Tickers |-> EmptyTable]
    /\ income_statement_quarterly = [t \in Tickers |-> EmptyTable]
    /\ OtherStatementsEmpty
    /\ valuation_snapshots = EmptyTable
    /\ derived_metrics = EmptyTable
    /\ composite_signals = EmptyTable
    /\ composite_next = 0
    /\ data_to_save = EmptyTable
    /\ feature_changes = 0
    /\ runs = 0
    /\ horizon = Never
    /\ LaterEmpty
    /\ pc = "init"

\* a store-side change of the signal rows of one ticker at the cohort date
\* between two scorer runs: a feature changes, becomes null, or the momentum
\* row goes away or comes back (table rebuild)
FeatureChange ==
    /\ pc = "composite"
    /\ feature_changes < MaxFeatureChanges
    /\ \E t \in Tickers, v \in ChangeOptions :
         LET key == <<t, CohortDate>>
             others == { k \in DOMAIN momentum_signals : k # key }
         IN  /\ IF v = <<>>
                THEN /\ key \in DOMAIN momentum_signals
                     /\ momentum_signals' = [k \in others |-> momentum_signals[k]]
                     /\ UNCHANGED <<valuation_signals, fundamental_scores>>
                ELSE /\ valuation_signals' =
                          Upsert(valuation_signals, [k \in {key} |-> ValuationSignalRow(v)])
                     /\ momentum_signals' =
                          Upsert(momentum_signals, [k \in {key} |-> MomentumSignalRow(v)])
                     /\ fundamental_scores' =
                          Upsert(fundamental_scores, [k \in {key} |-> FundamentalScoreRow(v)])
             /\ signal_tables' # signal_tables
    /\ feature_changes' = feature_changes + 1
    /\ pc' = "features"
    /\ UNCHANGED <<fact_tables, valuation_snapshots, derived_metrics,
                    scorer_state, runs, horizon,
                    later_tables, in_flight>>

NextScorer == ProcessQuarterStep \/ FeatureChange

SpecScorer == InitScorer /\ [][NextScorer]_vars

\* ------------------------------------------------------------ the pipeline
\* the full runs of the pipeline that are started
MaxRuns == 2

\* the statements of the pipeline's store: four quarters and three fiscal
\* years of the first two tickers
QuarterlyIncome(basic_eps, total_revenue) ==
    [diluted_eps |-> 100, basic_eps |-> basic_eps, total_revenue |-> total_revenue,
     net_income |-> 100]

QuarterlyBalance == [stockholders_equity |-> 500, total_debt |-> 250]

QuarterlyCashFlow == [free_cash_flow |-> 50]

AnnualIncome(eps) ==
    [diluted_eps |-> eps, total_revenue |-> 1000, net_income |-> 100,
     operating_income |-> 150]

AnnualBalance ==
    [stockholders_equity |-> 500, total_assets |-> 900, total_debt |-> 250,
     current_assets |-> 300, current_liabilities |-> 200]

AnnualCashFlow ==
    [operating_cash_flow |-> 120, free_cash_flow |-> 50, dividends_paid |-> 10]

Reporting == {1, 2}
ReportedQuarters == { QEnd(n) : n \in 6..9 }
\* the fiscal years end with the first, fifth and ninth quarter; a filing
\* for a period 30 days after the last one falls in the same calendar year
FiscalYearEnds == { QEnd(1), QEnd(5), QEnd(9) }
LateFiling == QEnd(9) + 30
\* daily sessions from the middle of the second year on
FirstSession == QEnd(5) + 15
LastSession == QEnd(9) + 11

InitPipeline ==
    /\ \E twin \in BOOLEAN :
         income_statement_quarterly =
            [t \in Tickers |->
                IF t \notin Reporting THEN EmptyTable
                ELSE [p \in ReportedQuarters |->
                        QuarterlyIncome(
                            100 + (p \div QuarterLen) * 10
                                + (IF t = 2 /\ ~twin /\ p = QEnd(9) THEN 30 ELSE 0),
                            1000 + (p \div QuarterLen) * 50)]]
    /\ balance_sheet_quarterly =
          [t \in Tickers |->
              IF t \in Reporting THEN [p \in ReportedQuarters |-> QuarterlyBalance]
              ELSE EmptyTable]
    /\ cash_flow_quarterly =
          [t \in Tickers |->
              IF t \in Reporting THEN [p \in ReportedQuarters |-> QuarterlyCashFlow]
              ELSE EmptyTable]
    /\ \E last_eps \in {225, 400} :
         income_statement_annual =
            [t \in Tickers |->
                IF t \notin Reporting THEN EmptyTable
                ELSE [p \in FiscalYearEnds |->
                        AnnualIncome(IF p = QEnd(9) THEN last_eps
                                     ELSE IF p = QEnd(5) THEN 200 ELSE 100)]]
    /\ balance_sheet_annual =
          [t \in Tickers |->
              IF t \in Reporting
              THEN [p \in FiscalYearEnds \cup {LateFiling} |-> AnnualBalance]
              ELSE EmptyTable]
    /\ cash_flow_annual =
          [t \in Tickers |->
              IF t \in Reporting
              THEN [p \in FiscalYearEnds \cup {LateFiling} |-> AnnualCashFlow]
              ELSE EmptyTable]
    /\ price_history =
          [t \in Tickers |->
              IF t \in Reporting THEN PriceWorld(FirstSession..LastSession, 2000)
              ELSE EmptyTable]
    /\ valuation_snapshots = EmptyTable
    /\ DerivedEmpty
    /\ pc = "init"

\* the orchestration layer starts a run of the pipeline when no run is under
\* way; the stages of a run follow the dependency order
StartRun ==
    /\ pc \in {"init", "composite", "load"}
    /\ runs < MaxRuns
    /\ runs' = runs + 1
    /\ pc' = "run"
    /\ UNCHANGED <<fact_tables, valuation_snapshots, derived_metrics, signal_tables,
                    scorer_state, feature_changes, horizon,
                    later_tables, in_flight>>

RunSnapshots == pc = "run" /\ ProcessAllSnapshots

RunDerivedMetrics == pc = "snapshots" /\ ProcessAllTickers

RunEpsCagr == pc = "metrics" /\ ComputeEpsCagr

RunTargetPe == pc = "cagr" /\ ComputeTargetPe

RunValuation == pc = "target_pe" /\ ProcessAllValuation

RunMomentum == pc = "valuation" /\ ProcessAllMomentum

RunFundamental == pc = "momentum" /\ ProcessAllFundamental

\* a variant of the run in which the scorer may start as soon as the
\* momentum stage has ended
RunCompositeAfterMomentum ==
    pc \in {"momentum", "fundamental", "composite_run"} /\ ProcessQuarterStep

RunComposite == pc \in {"fundamental", "composite_run"} /\ ProcessQuarterStep

\* extract_income_statement.py: an annual income statement for a period after
\* the last fiscal year end is loaded (INSERT ... ON CONFLICT DO UPDATE)
LoadAnnualIncome ==
    /\ pc = "composite"
    /\ horizon = Never
    /\ \E t \in Reporting, eps \in {400, 900} :
         income_statement_annual' =
            [income_statement_annual EXCEPT
                ![t] = Upsert(@, [p \in {LateFiling} |-> AnnualIncome(eps)])]
    /\ horizon' = LateFiling
    /\ pc' = "load"
    /\ UNCHANGED <<price_history, income_statement_quarterly, balance_sheet_quarterly,
                    cash_flow_quarterly, balance_sheet_annual, cash_flow_annual,
                    valuation_snapshots, derived_metrics, signal_tables, scorer_state,
                    feature_changes, runs,
                    later_tables, in_flight>>

\* extract_income_statement_quarterly.py: the income statement of the quarter
\* after the last reported one is loaded
LoadQuarterlyIncome ==
    /\ pc = "composite"
    /\ horizon = Never
    /\ \E t \in Reporting, basic_eps \in {50, 300} :
         income_statement_quarterly' =
            [income_statement_quarterly EXCEPT
                ![t] = Upsert(@, [p \in {QEnd(10)} |-> QuarterlyIncome(basic_eps, 2000)])]
    /\ horizon' = QEnd(10)
    /\ pc' = "load"
    /\ UNCHANGED <<price_history, balance_sheet_quarterly, cash_flow_quarterly,
                    income_statement_annual, balance_sheet_annual, cash_flow_annual,
                    valuation_snapshots, derived_metrics, signal_tables, scorer_state,
                    feature_changes, runs,
                    later_tables, in_flight>>

\* load_price_history.py: the sessions after the last stored one are loaded
LoadLaterPrices ==
    /\ pc = "composite"
    /\ horizon = Never
    /\ \E t \in Reporting :
         insert_price_data(t, PriceWorld((LastSession + 1)..(LastSession + 5), 3000))
    /\ horizon' = LastSession + 1
    /\ UNCHANGED <<statements, valuation_snapshots, derived_metrics, signal_tables,
                    scorer_state, feature_changes, runs,
                    later_tables, in_flight>>

Init == InitPipeline

Next ==
    \/ StartRun
    \/ RunSnapshots
    \/ RunDerivedMetrics
    \/ RunEpsCagr
    \/ RunTargetPe
    \/ RunValuation
    \/ RunMomentum
    \/ RunFundamental
    \/ RunComposite
    \/ LoadAnnualIncome
    \/ LoadQuarterlyIncome
    \/ LoadLaterPrices

Spec == Init /\ [][Next]_vars

\* ------------------- the growth metrics and the EPS CAGR updater together
\* the diluted EPS an annual income statement may carry
AnnualEpsValues == {-50, 100, 400}

\* what the second ticker has filed for its second fiscal year
SecondYearFilings == {"complete", "no_balance_sheet", "no_dividends", "no_eps"}

\* the fiscal year ends of a ticker's annual statements: three, and a
\* fourth for the second ticker
FiledYears(t) == IF t = 2 THEN FiscalYearEnds \cup {QEnd(13)} ELSE FiscalYearEnds

\* the annual statements of the reporting tickers
InitGrowth ==
    /\ \E filed \in SecondYearFilings :
         /\ income_statement_annual \in
               { [t \in Tickers |->
                     IF t \notin Reporting THEN EmptyTable
                     ELSE [p \in FiledYears(t) |->
                             AnnualIncome(IF t = 1 /\ p = QEnd(1) THEN first
                                          ELSE IF t = 1 /\ p = QEnd(9) THEN last
                                          ELSE IF t = 2 /\ p = QEnd(5) /\ filed = "no_eps"
                                          THEN NULL
                                          ELSE IF p = QEnd(13) THEN 400
                                          ELSE 100)]] :
                   first \in AnnualEpsValues, last \in AnnualEpsValues }
         /\ balance_sheet_annual =
               [t \in Tickers |->
                   IF t \notin Reporting THEN EmptyTable
                   ELSE [p \in { q \in FiledYears(t) :
                                   ~(t = 2 /\ q = QEnd(5) /\ filed = "no_balance_sheet") } |->
                           AnnualBalance]]
         /\ cash_flow_annual =
               [t \in Tickers |->
                   IF t \notin Reporting THEN EmptyTable
                   ELSE [p \in FiledYears(t) |->
                           IF t = 2 /\ p = QEnd(5) /\ filed = "no_dividends"
                           THEN [AnnualCashFlow EXCEPT !.dividends_paid = NULL]
                           ELSE AnnualCashFlow]]
    /\ income_statement_quarterly = [t \in Tickers |-> EmptyTable]
    /\ balance_sheet_quarterly = [t \in Tickers |-> EmptyTable]
    /\ cash_flow_quarterly = [t \in Tickers |-> EmptyTable]
    /\ price_history = [t \in Tickers |-> EmptyTable]
    /\ valuation_snapshots = EmptyTable
    /\ DerivedEmpty
    /\ pc = "init"

\* extract_income_statement.py: the annual income statement of the first or
\* the last fiscal year of the first ticker is loaded again with another
\* EPS (INSERT ... ON CONFLICT DO UPDATE)
ReloadAnnualIncome ==
    /\ \E p \in {QEnd(1), QEnd(9)}, eps \in AnnualEpsValues :
         /\ income_statement_annual[1][p].diluted_eps # eps
         /\ income_statement_annual' =
               [income_statement_annual EXCEPT
                   ![1] = Upsert(@, [q \in {p} |-> AnnualIncome(eps)])]
    /\ pc' = "load"
    /\ UNCHANGED <<price_history, income_statement_quarterly, balance_sheet_quarterly,
                    cash_flow_quarterly, balance_sheet_annual, cash_flow_annual,
                    valuation_snapshots, derived_metrics, signal_tables, scorer_state,
                    book, later_tables, in_flight>>

\* the two writers of derived_metrics run side by side: the statements of
\* the one fall between the statements of the other in any order
NextGrowth ==
    \/ ReloadAnnualIncome
    \/ ProcessAllTickers
    \/ FetchEpsData
    \/ UpdateEpsCagr

SpecGrowth == InitGrowth /\ [][NextGrowth]_vars

\* ------------------------------------ the fundamental scorer on its own
\* the quarters the first ticker has reported, its basic EPS and its revenue
FundQuarterSets == { {1, 2}, {1, 2, 3}, {2, 4} }
FundEpsValues == {0, 100, 150}
FundRevenues == {0, 1000}

\* the first ticker has statements of the quarters of one of the sets: any
\* EPS in each, and a revenue of 1200 after that of the first quarter
InitFund ==
    /\ \E Q \in FundQuarterSets, first_revenue \in FundRevenues :
         /\ income_statement_quarterly \in
               { [t \in Tickers |->
                     IF t # 1 THEN EmptyTable
                     ELSE [p \in { QEnd(n) : n \in Q } |->
                             QuarterlyIncome(eps[p \div QuarterLen],
                                             IF \A n \in Q : QEnd(n) >= p
                                             THEN first_revenue ELSE 1200)]] :
                   eps \in [Q -> FundEpsValues] }
         /\ balance_sheet_quarterly =
               [t \in Tickers |->
                   IF t = 1 THEN [p \in { QEnd(n) : n \in Q } |-> QuarterlyBalance]
                   ELSE EmptyTable]
         /\ cash_flow_quarterly =
               [t \in Tickers |->
                   IF t = 1 THEN [p \in { QEnd(n) : n \in Q } |-> QuarterlyCashFlow]
                   ELSE EmptyTable]
    /\ income_statement_annual = [t \in Tickers |-> EmptyTable]
    /\ balance_sheet_annual = [t \in Tickers |-> EmptyTable]
    /\ cash_flow_annual = [t \in Tickers |-> EmptyTable]
    /\ price_history = [t \in Tickers |-> EmptyTable]
    /\ valuation_snapshots = EmptyTable
    /\ DerivedEmpty
    /\ pc = "init"

\* extract_income_statement_quarterly.py: the income statement of the fifth
\* quarter is loaded
LoadFifthQuarter ==
    /\ QEnd(5) \notin DOMAIN income_statement_quarterly[1]
    /\ \E basic_eps \in FundEpsValues :
         income_statement_quarterly' =
            [income_statement_quarterly EXCEPT
                ![1] = Upsert(@, [p \in {QEnd(5)} |-> QuarterlyIncome(basic_eps, 1500)])]
    /\ pc' = "load"
    /\ UNCHANGED <<price_history, balance_sheet_quarterly, cash_flow_quarterly,
                    income_statement_annual, balance_sheet_annual, cash_flow_annual,
                    valuation_snapshots, derived_metrics, signal_tables, scorer_state,
                    book, later_tables, in_flight>>

NextFund == ProcessAllFundamental \/ LoadFifthQuarter

SpecFund == InitFund /\ [][NextFund]_vars

\* ------------------------------------- the valuation stages on their own
\* the price histories: one session on each quarter end from the third (the
\* first ticker) or the fifth (the second) to the ninth.  Flat at 30.00; 0.01 up to the fourth
\* quarter; 160.16 falling to 128.12 in the ninth quarter; 30.00 falling
\* to 20.00 in the ninth quarter
PriceScenarios == {"flat", "penny", "edge", "cheap"}

ScenarioPrice(scenario, n) ==
    IF scenario = "penny" THEN (IF n <= 4 THEN 1 ELSE 3000)
    ELSE IF scenario = "edge" THEN (IF n <= 8 THEN 16016 ELSE 12812)
    ELSE IF scenario = "cheap" THEN (IF n <= 8 THEN 3000 ELSE 2000)
    ELSE 3000

ScenarioPrices(scenario, first) ==
    [d \in { QEnd(n) : n \in first..9 } |->
        [price |-> ScenarioPrice(scenario, d \div QuarterLen), volume |-> 100]]

\* the reporting tickers have a diluted EPS of 0.50 or 1.00 in each quarter
\* from the second to the ninth and complete annual statements
InitValuation ==
    /\ \E scenario \in PriceScenarios :
         price_history =
            [t \in Tickers |->
                IF t = 1 THEN ScenarioPrices(scenario, 3)
                ELSE IF t = 2 THEN ScenarioPrices("flat", 5)
                ELSE EmptyTable]
    /\ \E eps \in {50, 100}, last_eps \in {100, 400} :
         /\ income_statement_quarterly =
               [t \in Tickers |->
                   IF t \in Reporting
                   THEN [p \in { QEnd(n) : n \in 2..9 } |-> QFact(IF t = 1 THEN 100 ELSE eps)]
                   ELSE EmptyTable]
         /\ income_statement_annual =
               [t \in Tickers |->
                   IF t \in Reporting
                   THEN [p \in FiscalYearEnds |->
                           AnnualIncome(IF p = QEnd(9) THEN last_eps ELSE 100)]
                   ELSE EmptyTable]
    /\ balance_sheet_annual =
          [t \in Tickers |->
              IF t \in Reporting THEN [p \in FiscalYearEnds |-> AnnualBalance]
              ELSE EmptyTable]
    /\ cash_flow_annual =
          [t \in Tickers |->
              IF t \in Reporting THEN [p \in FiscalYearEnds |-> AnnualCashFlow]
              ELSE EmptyTable]
    /\ balance_sheet_quarterly = [t \in Tickers |-> EmptyTable]
    /\ cash_flow_quarterly = [t \in Tickers |-> EmptyTable]
    /\ valuation_snapshots = EmptyTable
    /\ DerivedEmpty
    /\ pc = "init"

\* the annual statements of the fiscal year after the last one are loaded
\* for the first ticker
LoadLaterFiscalYear ==
    /\ pc = "projected"
    /\ horizon = Never
    /\ \E eps \in {100, 400} :
         income_statement_annual' =
            [income_statement_annual EXCEPT
                ![1] = Upsert(@, [p \in {QEnd(13)} |-> AnnualIncome(eps)])]
    /\ balance_sheet_annual' =
          [balance_sheet_annual EXCEPT
              ![1] = Upsert(@, [p \in {QEnd(13)} |-> AnnualBalance])]
    /\ cash_flow_annual' =
          [cash_flow_annual EXCEPT
              ![1] = Upsert(@, [p \in {QEnd(13)} |-> AnnualCashFlow])]
    /\ horizon' = QEnd(13)
    /\ pc' = "load"
    /\ UNCHANGED <<price_history, income_statement_quarterly, balance_sheet_quarterly,
                    cash_flow_quarterly, valuation_snapshots, derived_metrics,
                    signal_tables, scorer_state, feature_changes, runs,
                    later_tables, in_flight>>

\* runs of the stages up to the projected returns, in dependency order,
\* and the load between two runs
NextValuation ==
    \/ pc \in {"init", "load"} /\ ProcessAllSnapshots
    \/ pc = "snapshots" /\ ProcessAllTickers
    \/ pc = "metrics" /\ ComputeEpsCagr
    \/ pc = "cagr" /\ ComputeTargetPe
    \/ pc = "target_pe" /\ ProcessAllValuation
    \/ pc = "valuation" /\ RunProjectedReturns
    \/ LoadLaterFiscalYear

SpecValuation == InitValuation /\ [][NextValuation]_vars

\* ------------------------------------- the backtest evaluator on its own
\* the instruments of the evaluated store
NumBacktested == 21

Backtested == 1..NumBacktested
EvalDate == QEnd(2)

\* the cohort sizes: the two instruments of the spec's example, one less
\* than 2 * top_n, 2 * top_n, and every instrument
CohortSizes == {2, 2 * top_n - 1, 2 * top_n, NumBacktested}

\* composite_signals as a scorer run leaves it: ticker t has rank t
CompositeWorld(size) ==
    [k \in { <<t, EvalDate>> : t \in 1..size } |->
        [composite_score |-> (NumBacktested - k[1]) * 250 - 2500,
         rank |-> k[1],
         percentile |-> percentile_of(k[1], size)]]

\* the price a ticker has at the first session after EvalDate + h: falling
\* with the predicted rank (the first at +10%, the second at -5% of 10.00),
\* rising with it, unrelated to it, or equal for pairs of tickers
ExitPatterns == {"agree", "reverse", "mixed", "tied"}

ExitPrice(pattern, t, h) ==
    (h \div 30) - 1 +
    (IF pattern = "agree" THEN (IF t = 1 THEN 1100 ELSE 970 - t * 10)
     ELSE IF pattern = "reverse" THEN 760 + t * 10
     ELSE IF pattern = "mixed" THEN 800 + ((t * 7) % 23) * 10
     ELSE 900 + (t \div 2) * 10)

\* the sessions of a ticker: the day before EvalDate, EvalDate itself or the
\* second day after it, and the day after the end of each holding period
\* (not the last one when the history is short)
BacktestPrices(pattern, t, session_at_date, short) ==
    LET entry == IF session_at_date THEN EvalDate ELSE EvalDate + 2
        exits == { h \in holding_periods : ~short \/ h < 180 }
        days == {EvalDate - 1, entry} \cup { EvalDate + h + 1 : h \in exits }
    IN  [d \in days |->
            [price |-> IF d = EvalDate - 1 THEN 990
                       ELSE IF d = entry THEN 1000
                       ELSE ExitPrice(pattern, t, d - EvalDate - 1),
             volume |-> 100]]

\* the store holds composite scores and prices only
OnlyScoresAndPrices ==
    /\ income_statement_quarterly = [t \in Backtested |-> EmptyTable]
    /\ balance_sheet_quarterly = [t \in Backtested |-> EmptyTable]
    /\ cash_flow_quarterly = [t \in Backtested |-> EmptyTable]
    /\ income_statement_annual = [t \in Backtested |-> EmptyTable]
    /\ balance_sheet_annual = [t \in Backtested |-> EmptyTable]
    /\ cash_flow_annual = [t \in Backtested |-> EmptyTable]
    /\ valuation_snapshots = EmptyTable
    /\ derived_metrics = EmptyTable
    /\ valuation_signals = EmptyTable
    /\ momentum_signals = EmptyTable
    /\ fundamental_scores = EmptyTable
    /\ composite_next = 0
    /\ data_to_save = EmptyTable
    /\ feature_changes = 0
    /\ runs = 0
    /\ horizon = Never
    /\ LaterEmpty
    /\ pc = "init"

InitBacktest ==
    /\ \E size \in CohortSizes, pattern \in ExitPatterns,
          session_at_date \in BOOLEAN, short \in 0..2 :
         /\ composite_signals = CompositeWorld(size)
         /\ price_history =
               [t \in Backtested |->
                   BacktestPrices(pattern, t, session_at_date,
                                  t > size - short /\ t <= size)]
    /\ OnlyScoresAndPrices

\* the loader brings the session after the longest holding period of a
\* ticker whose history was short
LoadExitPrices ==
    /\ \E t \in Entries(EvalDate), pattern \in {"agree", "reverse"} :
         /\ \A d \in DOMAIN price_history[t] : d < EvalDate + 180
         /\ insert_price_data(t, [d \in {EvalDate + 181} |->
                                    [price |-> ExitPrice(pattern, t, 180), volume |-> 100]])
    /\ UNCHANGED <<statements, valuation_snapshots, derived_metrics, signal_tables,
                    scorer_state, book, later_tables, in_flight>>

NextBacktest == RunBacktest \/ LoadExitPrices

SpecBacktest == InitBacktest /\ [][NextBacktest]_vars

\* ------------------------ the backtest evaluator around a scorer re-run
\* a cohort of 2 * top_n instruments; the scorer gives tied scores adjacent
\* ranks, here to the instruments ranked top_n and top_n + 1
TiedCompositeWorld(tied) ==
    LET world == CompositeWorld(2 * top_n)
    IN  [k \in DOMAIN world |->
            IF tied /\ k[1] = top_n + 1
            THEN [world[k] EXCEPT !.composite_score = world[<<top_n, k[2]>>].composite_score]
            ELSE world[k]]

InitRerun ==
    /\ \E tied \in BOOLEAN, pattern \in ExitPatterns,
          session_at_date \in BOOLEAN, short \in 0..1 :
         /\ composite_signals = TiedCompositeWorld(tied)
         /\ price_history =
               [t \in Backtested |->
                   BacktestPrices(pattern, t, session_at_date,
                                  t > 2 * top_n - short /\ t <= 2 * top_n)]
    /\ OnlyScoresAndPrices

\* CompositeSignalCalculator.process_all after the features of the cohort
\* changed: save_scores replaces composite_score, rank and percentile of
\* every row; here the new scores reverse the order of the cohort
RecomputeComposite ==
    /\ pc = "backtest"
    /\ feature_changes < MaxFeatureChanges
    /\ composite_signals' =
          [k \in DOMAIN composite_signals |->
              composite_signals[<<Cardinality(Entries(k[2])) + 1 - k[1], k[2]>>]]
    /\ feature_changes' = feature_changes + 1
    /\ pc' = "composite"
    /\ UNCHANGED <<fact_tables, valuation_snapshots, derived_metrics, signal_tables,
                    composite_next, data_to_save, runs, horizon, later_tables,
                    in_flight>>

NextRerun == RunBacktest \/ RecomputeComposite \/ LoadExitPrices

SpecRerun == InitRerun /\ [][NextRerun]_vars

\* ------------------------------------------------------------------ claims
RECURSIVE SetSum(_, _)
SetSum(f, S) ==
    IF S = {} THEN 0
    ELSE LET x == CHOOSE y \in S : TRUE IN f[x] + SetSum(f, S \ {x})

\* the periods of the (up to four) most recent non-null diluted EPS of a
\* ticker on or before a date
RecentEpsPeriods(t, D) ==
    LET known == { p \in DOMAIN income_statement_quarterly[t] :
                     p <= D /\ income_statement_quarterly[t][p].diluted_eps # NULL }
    IN  { p \in known : Cardinality({ q \in known : q > p }) < 4 }

RecentEpsSum(t, D) ==
    SetSum([p \in RecentEpsPeriods(t, D) |->
               income_statement_quarterly[t][p].diluted_eps],
           RecentEpsPeriods(t, D))

PricedOnOrBefore(t, D) == { d \in DOMAIN price_history[t] : d <= D }

\* the parts of C3 that do not depend on how the estimate is rounded
TtmShape(t, D) ==
    LET k == Cardinality(RecentEpsPeriods(t, D))
        key == <<t, D>>
    IN  /\ k < 2 => key \notin DOMAIN valuation_snapshots
        /\ (k >= 2 /\ PricedOnOrBefore(t, D) # {}) => key \in DOMAIN valuation_snapshots
        /\ key \in DOMAIN valuation_snapshots =>
              valuation_snapshots[key].ttm_eps_complete = (k = 4)

\* C3 as stated: with k the number of the (up to four) most recent non-null
\* quarterly EPS on or before the date, k < 2 gives no snapshot row while
\* later dates are still processed, k in {2, 3} gives exactly
\* sum + average * (4 - k) and an incomplete flag, k = 4 gives exactly the
\* sum and a complete flag.
C3_TtmExact ==
    pc = "snapshots" =>
      \A t \in Tickers, D \in quarter_ends :
        LET k == Cardinality(RecentEpsPeriods(t, D))
            total == RecentEpsSum(t, D)
            key == <<t, D>>
        IN  /\ TtmShape(t, D)
            /\ key \in DOMAIN valuation_snapshots =>
                  \* ttm_eps / 10000 = (total + (total / k) * (4 - k)) / 100
                  valuation_snapshots[key].ttm_eps * k
                      = (total * k + total * (4 - k)) * 100

\* C3 amended: the same, the stored TTM EPS being that value rounded to four
\* decimal places.
C3_TtmRounded ==
    pc = "snapshots" =>
      \A t \in Tickers, D \in quarter_ends :
        LET k == Cardinality(RecentEpsPeriods(t, D))
            total == RecentEpsSum(t, D)
            key == <<t, D>>
        IN  /\ TtmShape(t, D)
            /\ key \in DOMAIN valuation_snapshots =>
                  2 * Abs(valuation_snapshots[key].ttm_eps * k
                            - (total * k + total * (4 - k)) * 100) <= k

\* a run that skipped a date with one quarter, estimated a date from three
\* quarters with a rounded result, and summed four quarters at a later date
C3_Witness ==
    /\ pc = "snapshots"
    /\ \E t \in Tickers, D1, D2, D3 \in quarter_ends :
         /\ D1 < D2 /\ D2 < D3
         /\ Cardinality(RecentEpsPeriods(t, D1)) = 1
         /\ Cardinality(RecentEpsPeriods(t, D2)) = 3
         /\ Cardinality(RecentEpsPeriods(t, D3)) = 4
         /\ <<t, D1>> \notin DOMAIN valuation_snapshots
         /\ <<t, D2>> \in DOMAIN valuation_snapshots
         /\ <<t, D3>> \in DOMAIN valuation_snapshots
         /\ (400 * RecentEpsSum(t, D2)) % 3 # 0
         /\ valuation_snapshots[<<t, D3>>].ttm_eps_complete

\* the price of the last session of a ticker on or before a date
LatestPrice(t, D) ==
    LET S == PricedOnOrBefore(t, D)
    IN  price_history[t][CHOOSE d \in S : \A e \in S : e <= d].price

\* the parts of C4 that do not depend on how the quotient is rounded
SnapshotShape(t, D) ==
    LET key == <<t, D>>
        k == Cardinality(RecentEpsPeriods(t, D))
    IN  /\ (k < 2 \/ PricedOnOrBefore(t, D) = {}) => key \notin DOMAIN valuation_snapshots
        /\ key \in DOMAIN valuation_snapshots =>
              /\ valuation_snapshots[key].entry_price = LatestPrice(t, D)
              /\ (valuation_snapshots[key].ttm_pe = NULL)
                    <=> (valuation_snapshots[key].ttm_eps = 0)

NthFromEnd(S, n) == CHOOSE d \in S : Cardinality({ e \in S : e >= d }) = n

\* m (in 1/10000) is current / reference - 1 to four decimal places
IsReturnOf(m, current, reference) ==
    2 * Abs(m * reference - (current - reference) * 10000) <= reference

\* C5 as stated: the reference price of each lookback N in {63, 126, 252} is
\* that of the N-th priced session counting back from the last session on or
\* before as_of_date (with 300 contiguous sessions, momentum_12m uses the
\* 252nd from the end).
C5_NthFromEnd ==
    pc = "momentum" =>
      \A key \in DOMAIN momentum_signals :
        LET t == key[1]
            S == PricedOnOrBefore(t, key[2])
            current == LatestPrice(t, key[2])
            RefOk(m, n) ==
                Cardinality(S) >= n =>
                    IsReturnOf(m, current, price_history[t][NthFromEnd(S, n)].price)
        IN  /\ RefOk(momentum_signals[key].momentum_3m, Lookback3m)
            /\ RefOk(momentum_signals[key].momentum_6m, Lookback6m)
            /\ RefOk(momentum_signals[key].momentum_12m, Lookback12m)

\* the number of priced sessions in the calendar window of a lookback
WindowCount(t, D, n) ==
    Cardinality({ d \in DOMAIN price_history[t] : D - (n + BufferDays) <= d /\ d <= D })

\* C6: a momentum row exists only for a date with a current price, at least
\* 50 / 100 / 200 priced sessions in the 63 / 126 / 252-day windows and a
\* 3-month average volume, and no stored row has a null field.
C6_AllOrNothing ==
    \A key \in DOMAIN momentum_signals :
        LET t == key[1]
            D == key[2]
        IN  /\ PricedOnOrBefore(t, D) # {}
            /\ WindowCount(t, D, 63) >= 50
            /\ WindowCount(t, D, 126) >= 100
            /\ WindowCount(t, D, 252) >= 200
            /\ \E d \in DOMAIN price_history[t] : D - 90 <= d /\ d <= D
            /\ momentum_signals[key].momentum_3m # NULL
            /\ momentum_signals[key].momentum_6m # NULL
            /\ momentum_signals[key].momentum_12m # NULL
            /\ momentum_signals[key].avg_volume_3m # NULL

\* a run that wrote a row for one date and none for a later date whose three
\* windows are full but which has no session in its last 90 days
C6_Witness ==
    /\ pc = "momentum"
    /\ \E t \in Tickers, D1, D2 \in quarter_ends :
         /\ <<t, D1>> \in DOMAIN momentum_signals
         /\ <<t, D2>> \notin DOMAIN momentum_signals
         /\ PricedOnOrBefore(t, D2) # {}
         /\ WindowCount(t, D2, 63) >= 50
         /\ WindowCount(t, D2, 126) >= 100
         /\ WindowCount(t, D2, 252) >= 200
         /\ ~ \E d \in DOMAIN price_history[t] : D2 - 90 <= d /\ d <= D2


\* the ticker has all of valuation_signal, momentum_3m / 6m / 12m,
\* eps_growth, revenue_growth, roe and net_margin for the date
CompleteVector(t, D) ==
    LET key == <<t, D>>
    IN  /\ key \in DOMAIN valuation_signals
        /\ key \in DOMAIN momentum_signals
        /\ key \in DOMAIN fundamental_scores
        /\ valuation_signals[key].valuation_signal # NULL
        /\ momentum_signals[key].momentum_3m # NULL
        /\ momentum_signals[key].momentum_6m # NULL
        /\ momentum_signals[key].momentum_12m # NULL
        /\ fundamental_scores[key].eps_growth # NULL
        /\ fundamental_scores[key].revenue_growth # NULL
        /\ fundamental_scores[key].roe # NULL
        /\ fundamental_scores[key].net_margin # NULL

Cohort(D) == { t \in Tickers : CompleteVector(t, D) }

\* the quarter the scorer processed last
LastQuarter == IF composite_next = 0 THEN QEnd(NumQuarters) ELSE QEnd(composite_next - 1)

ScorerRan == pc \in {"composite", "composite_run"}

\* the score of a cohort member when mean and deviation are taken over the
\* cohort alone
CohortScore(t, D) ==
    LET n == Cardinality(Cohort(D))
        members == [i \in 1..n |-> KthSmallest(Cohort(D), i, 1, NumTickers)]
        Z(j) == compute_zscores(ToList([i \in 1..n |-> FeatureRow(members[i], D)[j]], n))
        me == CHOOSE i \in 1..n : members[i] = t
    IN  Z(5)[me] + Z(6)[me] + Z(7)[me] + Z(8)[me] + Z(2)[me] + Z(3)[me] + Z(4)[me]
          - Z(1)[me]

\* C7: the rows a scorer run writes for a date are those of the instruments
\* with a complete feature vector for it, no other instrument gets a score,
\* and each score is the one computed over the complete-vector cohort alone.
C7_CohortComplete ==
    ScorerRan =>
      /\ DOMAIN data_to_save = { <<t, LastQuarter>> : t \in Cohort(LastQuarter) }
      /\ \A key \in DOMAIN data_to_save :
            /\ key \in DOMAIN composite_signals
            /\ composite_signals[key] = data_to_save[key]
            /\ data_to_save[key].composite_score = CohortScore(key[1], key[2])

\* a run scored a cohort of two with different scores and left out a ticker
\* with a null feature and a ticker whose rows do not join
C7_Witness ==
    /\ ScorerRan
    /\ \E t1, t2, t3, t4 \in Tickers :
         /\ <<t1, LastQuarter>> \in DOMAIN data_to_save
         /\ <<t2, LastQuarter>> \in DOMAIN data_to_save
         /\ data_to_save[<<t1, LastQuarter>>].composite_score
               # data_to_save[<<t2, LastQuarter>>].composite_score
         /\ <<t3, LastQuarter>> \in DOMAIN fundamental_scores
         /\ <<t3, LastQuarter>> \in DOMAIN momentum_signals
         /\ fundamental_scores[<<t3, LastQuarter>>].eps_growth = NULL
         /\ <<t3, LastQuarter>> \notin DOMAIN data_to_save
         /\ <<t4, LastQuarter>> \in DOMAIN valuation_signals
         /\ <<t4, LastQuarter>> \notin DOMAIN momentum_signals
         /\ <<t4, LastQuarter>> \notin DOMAIN data_to_save

\* the ranks of the rows form 1..N, each once, and follow the scores
RanksOrdered(rows) ==
    /\ \A r \in 1..Cardinality(DOMAIN rows) : \E k \in DOMAIN rows : rows[k].rank = r
    /\ \A k1, k2 \in DOMAIN rows : k1 # k2 => rows[k1].rank # rows[k2].rank
    /\ \A k1, k2 \in DOMAIN rows :
          rows[k1].composite_score > rows[k2].composite_score
              => rows[k1].rank < rows[k2].rank

\* C8 as stated: the ranks of a written cohort of N are exactly 1..N, a
\* strictly higher score has a strictly smaller rank, and percentile is
\* exactly (N - rank) / (N - 1) for N > 1 and 0 for N = 1.
C8_PercentileExact ==
    ScorerRan =>
      LET N == Cardinality(DOMAIN data_to_save)
      IN  /\ RanksOrdered(data_to_save)
          /\ \A k \in DOMAIN data_to_save :
                IF N > 1
                THEN data_to_save[k].percentile * (N - 1)
                         = (N - data_to_save[k].rank) * 10000
                ELSE data_to_save[k].percentile = 0

\* C8 amended: the same, the stored percentile being (N - rank) / (N - 1)
\* rounded to four decimal places.
C8_PercentileRounded ==
    ScorerRan =>
      LET N == Cardinality(DOMAIN data_to_save)
      IN  /\ RanksOrdered(data_to_save)
          /\ \A k \in DOMAIN data_to_save :
                IF N > 1
                THEN 2 * Abs(data_to_save[k].percentile * (N - 1)
                               - (N - data_to_save[k].rank) * 10000) <= N - 1
                ELSE data_to_save[k].percentile = 0

\* a run ranked a cohort of four holding a tie and strictly better scores;
\* the second of four has the rounded percentile 0.6667
C8_Witness ==
    /\ ScorerRan
    /\ Cardinality(DOMAIN data_to_save) = 4
    /\ \E k1, k2, k3, k4 \in DOMAIN data_to_save :
         /\ k1 # k2
         /\ data_to_save[k1].composite_score = data_to_save[k2].composite_score
         /\ data_to_save[k4].composite_score > data_to_save[k1].composite_score
         /\ data_to_save[k3].composite_score > data_to_save[k4].composite_score
         /\ data_to_save[k3].rank = 1 /\ data_to_save[k3].percentile = 10000
         /\ data_to_save[k4].rank = 2 /\ data_to_save[k4].percentile = 6667

\* C9 as stated: after feature changes and scorer re-runs the rows stored
\* for a date are exactly the current cohort of the date, their ranks
\* forming 1..N without duplicates; an instrument that left the cohort
\* keeps no stale row.
C9_CohortRecomputed ==
    pc = "composite" =>
      \A D \in quarter_ends :
        LET stored == { k \in DOMAIN composite_signals : k[2] = D }
        IN  /\ stored = { <<t, D>> : t \in Cohort(D) }
            /\ \A r \in 1..Cardinality(stored) :
                  \E k \in stored : composite_signals[k].rank = r
            /\ \A k1, k2 \in stored :
                  k1 # k2 => composite_signals[k1].rank # composite_signals[k2].rank

\* the cohort of the date has several members, all with the same features
IdenticalCohort(D) ==
    /\ Cardinality(Cohort(D)) >= 2
    /\ \A t, u \in Cohort(D) : FeatureRow(t, D) = FeatureRow(u, D)

\* C10 as stated: a cohort with identical feature vectors gets z-scores of
\* 0, hence equal composite scores of 0, ranks 1..N, and the same rank for
\* each instrument on every run over the same data.
C10_IdenticalStable ==
    [][ \A D \in quarter_ends :
          (/\ signal_tables' = signal_tables
           /\ feature_changes = 0
           /\ IdenticalCohort(D)
           /\ composite_signals' # composite_signals \/ data_to_save' # data_to_save
           /\ \E k \in DOMAIN data_to_save' : k[2] = D)
          => /\ \A k \in DOMAIN data_to_save' : data_to_save'[k].composite_score = 0
             /\ \A r \in 1..Cardinality(DOMAIN data_to_save') :
                   \E k \in DOMAIN data_to_save' : data_to_save'[k].rank = r
             /\ \A k \in DOMAIN data_to_save' :
                   k \in DOMAIN composite_signals =>
                       composite_signals'[k].rank = composite_signals[k].rank
      ]_vars


\* the row of a table at a key, NoRow when there is none
RowAt(table, key) == IF key \in DOMAIN table THEN table[key] ELSE NoRow

C2_Idempotent ==
    [][ (runs' >= 2 /\ horizon' = Never) =>
            /\ valuation_snapshots' = valuation_snapshots
            /\ signal_tables' = signal_tables
            /\ composite_signals' = composite_signals
      ]_vars

\* the price of the last priced session on or before a day, NULL when none
PriceOnOrBefore(ticker, dt) ==
    LET days == { d \in DOMAIN price_history[ticker] : d <= dt }
    IN  IF days = {} THEN NULL
        ELSE price_history[ticker][CHOOSE d \in days : \A e \in days : e <= d].price

\* the price of the first priced session on or after a day, NULL when none
PriceOnOrAfter(ticker, dt) ==
    LET days == { d \in DOMAIN price_history[ticker] : d >= dt }
    IN  IF days = {} THEN NULL
        ELSE price_history[ticker][CHOOSE d \in days : \A e \in days : d <= e].price

\* C11 as stated: the forward return stored for (as_of_date, h, instrument)
\* is exit / entry - 1, where entry is the price of the last priced session
\* on or before as_of_date and exit the price of the first priced session on
\* or after as_of_date + h.
C11_EntryExit ==
    \A k \in DOMAIN backtest_detail :
        LET entry == PriceOnOrBefore(k[3], k[1])
            exit == PriceOnOrAfter(k[3], k[1] + k[2])
        IN  /\ entry # NULL
            /\ exit # NULL
            /\ RetEqual(backtest_detail[k].actual_return,
                        [num |-> exit - entry, den |-> entry])

\* the instruments of the cohort of a date with a realized return over h
\* days: both prices found and the entry price not zero
ValidReturns(D, h) ==
    { t \in Entries(D) :
        /\ PriceOnOrAfter(t, D) \notin {NULL, 0}
        /\ PriceOnOrAfter(t, D + h) \notin {NULL, 0} }

DetailKeys(table, D, h) == { k \in DOMAIN table : k[1] = D /\ k[2] = h }

\* C12: a run of the backtest leaves the detail and summary rows of an
\* (as_of_date, holding period) with fewer than 2 * top_n valid realized
\* returns as they were and goes on to the other combinations; for a
\* combination with at least 2 * top_n it writes one detail row per
\* instrument with a valid return and exactly one summary row.
C12_MinimumSample ==
    [][ (pc' = "backtest" /\ price_history' = price_history) =>
          \A D \in BacktestDates, h \in holding_periods :
            IF Cardinality(ValidReturns(D, h)) < 2 * top_n
            THEN /\ DetailKeys(backtest_detail', D, h) = DetailKeys(backtest_detail, D, h)
                 /\ DetailKeys(backtest_summary', D, h) = DetailKeys(backtest_summary, D, h)
                 /\ \A k \in DetailKeys(backtest_detail, D, h) :
                       backtest_detail'[k] = backtest_detail[k]
                 /\ \A k \in DetailKeys(backtest_summary, D, h) :
                       backtest_summary'[k] = backtest_summary[k]
            ELSE /\ DetailKeys(backtest_detail', D, h)
                       = { <<D, h, t>> : t \in ValidReturns(D, h) }
                 /\ Cardinality(DetailKeys(backtest_summary', D, h)) = 1
                 /\ \A k \in DetailKeys(backtest_summary', D, h) :
                       backtest_summary'[k].n_eligible = Cardinality(ValidReturns(D, h))
      ]_vars

\* a run has skipped one holding period of a date, which had some returns
\* but too few, and has written the rows of another
C12_Witness ==
    /\ pc = "backtest"
    /\ \E D \in BacktestDates, h1, h2 \in holding_periods :
         /\ Cardinality(ValidReturns(D, h1)) \in 1..(2 * top_n - 1)
         /\ DetailKeys(backtest_detail, D, h1) = {}
         /\ DetailKeys(backtest_summary, D, h1) = {}
         /\ Cardinality(ValidReturns(D, h2)) >= 2 * top_n
         /\ DetailKeys(backtest_detail, D, h2) # {}
         /\ Cardinality(DetailKeys(backtest_summary, D, h2)) = 1

\* the top-N predicted set of a date: the instruments of the cohort with
\* fewer than top_n cohort members of a higher composite score
PredictedTopN(D) ==
    { t \in Entries(D) :
        Cardinality({ u \in Entries(D) :
                        composite_signals[<<u, D>>].composite_score
                          > composite_signals[<<t, D>>].composite_score }) < top_n }

\* the top-N realized set of a (date, holding period): the instruments whose
\* stored realized rank is among the first top_n
RealizedTopN(D, h) ==
    { k[3] : k \in { x \in DetailKeys(backtest_detail, D, h) :
                        backtest_detail[x].actual_rank <= top_n } }

\* C13 as stated: the top_n_overlap of a summary row is the number of
\* instruments that are both in the top-N predicted set and in the top-N
\* realized set of its (as_of_date, holding period).
C13_TopNOverlap ==
    \A k \in DOMAIN backtest_summary :
        backtest_summary[k].top_n_overlap
          = Cardinality(PredictedTopN(k[1]) \cap RealizedTopN(k[1], k[2]))

\* the realized return of an instrument over h days from a date
RealizedReturn(t, D, h) ==
    [num |-> PriceOnOrAfter(t, D + h) - PriceOnOrAfter(t, D),
     den |-> PriceOnOrAfter(t, D)]

\* every instrument of the cohort has a realized return, and the order of
\* the predicted ranks is the order of the realized returns
RanksAgree(D, h) ==
    /\ Cardinality(Entries(D)) >= 2
    /\ ValidReturns(D, h) = Entries(D)
    /\ \A t, u \in Entries(D) :
          composite_signals[<<t, D>>].rank < composite_signals[<<u, D>>].rank
            <=> RetGreater(RealizedReturn(t, D, h), RealizedReturn(u, D, h))

\* C14 as stated: after a run, every (as_of_date, holding period) whose
\* predicted ranks are in the order of the realized returns has a summary
\* row with Spearman correlation 1.0, and a cohort of two instruments in
\* agreement has a summary with correlation 1.0 and an overlap of 2.
C14_PerfectAgreement ==
    [][ (pc' = "backtest" /\ price_history' = price_history) =>
          \A D \in BacktestDates, h \in holding_periods :
            RanksAgree(D, h) =>
              /\ DetailKeys(backtest_summary', D, h) # {}
              /\ \A k \in DetailKeys(backtest_summary', D, h) :
                    /\ backtest_summary'[k].spearman_corr = 10000
                    /\ Cardinality(Entries(D)) = 2 =>
                          backtest_summary'[k].top_n_overlap = 2
      ]_vars

\* C15 as stated: after a run of the snapshot builder in which the batch
\* insert of one instrument raised a database error, every other instrument
\* has the snapshots of the run stored, the later ones in ticker order
\* included.
C15_FailureIsolation ==
    (pc = "snapshots" /\ insert_failed # {}) =>
        \A k \in DOMAIN SnapshotRows :
            k[1] \notin insert_failed =>
                /\ k \in DOMAIN valuation_snapshots
                /\ valuation_snapshots[k] = SnapshotRows[k]

\* every row a signal calculator computes from the store as it is now is
\* stored already
SignalsMaterialized ==
    /\ \A k \in DOMAIN MomentumRows :
          k \in DOMAIN momentum_signals /\ momentum_signals[k] = MomentumRows[k]
    /\ \A k \in DOMAIN FundamentalRows :
          k \in DOMAIN fundamental_scores /\ fundamental_scores[k] = FundamentalRows[k]
    /\ \A x \in ValuationTickers \X quarter_ends :
          (/\ ~ValuationRaises(x[1])
           /\ \E m \in get_valuation_inputs(x[1], x[2]) :
                 ValuationRow(x[1], x[2], m) # NoRow)
          => x \in DOMAIN valuation_signals

TwoYearsAgo(k) == <<k[1], k[2] - 2>>

\* C17 as stated: when the growth metrics upsert and the EPS CAGR updater
\* have both finished, in whatever order their statements reached the
\* store, every row whose EPS and whose EPS two years earlier are positive
\* stores the CAGR of these two EPS values.
C17_NoLostUpdate ==
    (pc = "cagr" /\ eps_data = NoFetch) =>
        \A k \in DOMAIN derived_metrics :
            (/\ TwoYearsAgo(k) \in DOMAIN derived_metrics
             /\ derived_metrics[k].eps > 0
             /\ derived_metrics[TwoYearsAgo(k)].eps > 0)
            => derived_metrics[k].eps_cagr_2y
                 = Cagr(derived_metrics[k].eps, derived_metrics[TwoYearsAgo(k)].eps)

\* C20 as stated: when compute_eps_cagr completes, with no other writer
\* between its fetch and its update, every row whose EPS or whose EPS two
\* years earlier is zero or negative has a null eps_cagr_2y, a row that got
\* a value from an earlier run included.
C20_NullForNonPositive ==
    [][ (/\ eps_data # NoFetch
         /\ eps_data' = NoFetch
         /\ eps_data.rows = fetch_eps_data)
        => \A k \in DOMAIN derived_metrics' :
              (/\ TwoYearsAgo(k) \in DOMAIN derived_metrics'
               /\ \/ derived_metrics'[k].eps <= 0
                  \/ derived_metrics'[TwoYearsAgo(k)].eps <= 0)
              => derived_metrics'[k].eps_cagr_2y = NULL
      ]_vars

\* the period of the most recent quarterly income statement of a ticker
\* with a basic EPS on or before a day (0: none), and of the one before it
CurrentQuarter(t, D) ==
    LET periods == { p \in DOMAIN income_statement_quarterly[t] :
                       p <= D /\ income_statement_quarterly[t][p].basic_eps # NULL }
    IN  IF periods = {} THEN 0 ELSE CHOOSE p \in periods : \A q \in periods : q <= p

PreviousQuarter(t, D) ==
    IF CurrentQuarter(t, D) = 0 THEN 0 ELSE CurrentQuarter(t, CurrentQuarter(t, D) - 1)

\* (new - old) / abs(old), rounded to 4 places; null if old is zero
Growth(new, old) ==
    IF old = 0 THEN NULL ELSE RoundDiv((new - old) * 10000, Abs(old))

\* C18 as stated: the eps_growth and the revenue_growth of every stored
\* fundamental score compare the most recent quarterly statement on or
\* before as_of_date with the most recent one strictly before that
\* statement, which are two distinct statements.
C18_DistinctQuarters ==
    pc = "fundamental" =>
        \A k \in DOMAIN fundamental_scores :
            LET facts == income_statement_quarterly[k[1]]
                current == CurrentQuarter(k[1], k[2])
                previous == PreviousQuarter(k[1], k[2])
            IN  /\ current # 0
                /\ previous # 0
                /\ previous < current
                /\ fundamental_scores[k].eps_growth
                     = Growth(facts[current].basic_eps, facts[previous].basic_eps)
                /\ fundamental_scores[k].revenue_growth
                     = Growth(facts[current].total_revenue, facts[previous].total_revenue)

\* C19 as stated: after a run, an (instrument, as_of_date) whose inputs
\* are all present, with equity and revenue not zero and a previous EPS of
\* zero, has a fundamental score with a null eps_growth and the other
\* ratios populated.
C19_NullGrowthField ==
    pc = "fundamental" =>
        \A t \in FundamentalTickers, D \in quarter_ends :
            LET income == income_statement_quarterly[t]
                eps == get_quarter_value(income, "basic_eps", D)
                eps_prev == get_previous_quarter_value(income, "basic_eps", D)
                revenue == get_quarter_value(income, "total_revenue", D)
                revenue_prev == get_previous_quarter_value(income, "total_revenue", D)
                net_income == get_quarter_value(income, "net_income", D)
                equity == get_quarter_value(balance_sheet_quarterly[t],
                                            "stockholders_equity", D)
                total_debt == get_quarter_value(balance_sheet_quarterly[t], "total_debt", D)
                fcf == get_quarter_value(cash_flow_quarterly[t], "free_cash_flow", D)
            IN  (/\ NULL \notin {eps, eps_prev, revenue, revenue_prev, net_income,
                                  equity, total_debt, fcf}
                 /\ equity # 0
                 /\ revenue # 0
                 /\ revenue_prev # 0
                 /\ eps_prev = 0)
                => /\ <<t, D>> \in DOMAIN fundamental_scores
                   /\ fundamental_scores[<<t, D>>].eps_growth = NULL
                   /\ fundamental_scores[<<t, D>>].revenue_growth
                        = Growth(revenue, revenue_prev)
                   /\ fundamental_scores[<<t, D>>].roe = Ratio4(net_income, equity)
                   /\ fundamental_scores[<<t, D>>].net_margin
                        = Ratio4(net_income, revenue)

\* the snapshots of a derived_metrics row's resolution window: as_of_date
\* from the period_ending of the fiscal year to one year later, price and
\* ttm_eps both positive
ResolutionWindow(k) ==
    { D \in quarter_ends :
        /\ <<k[1], D>> \in DOMAIN valuation_snapshots
        /\ valuation_snapshots[<<k[1], D>>].ttm_eps > 0
        /\ valuation_snapshots[<<k[1], D>>].entry_price > 0
        /\ D >= derived_metrics[k].period_ending
        /\ D <= derived_metrics[k].period_ending + 4 * QuarterLen }

\* C21 as stated: a target_pe stored by the resolver is price / ttm_eps of
\* the earliest snapshot of the row's resolution window, whatever the order
\* in which the store returns the candidate snapshots.
C21_ResolutionWindow ==
    pc = "target_pe" =>
        \A k \in DOMAIN derived_metrics :
            derived_metrics[k].target_pe # NULL =>
                /\ ResolutionWindow(k) # {}
                /\ LET first == CHOOSE D \in ResolutionWindow(k) :
                                    \A E \in ResolutionWindow(k) : D <= E
                   IN  derived_metrics[k].target_pe
                         = TargetPe(valuation_snapshots[<<k[1], first>>])

\* C22 as stated: after calculate_metrics and save_metrics, an annual
\* income statement has a derived_metrics record exactly when its EPS and
\* its revenue are both non-null, whether or not a balance-sheet or
\* cash-flow metric of the period is absent.
C22_RecordRetention ==
    pc = "metrics" =>
        \A t \in Tickers :
            \A p \in DOMAIN income_statement_annual[t] :
                (/\ income_statement_annual[t][p].diluted_eps # NULL
                 /\ income_statement_annual[t][p].total_revenue # NULL)
                <=> <<t, fiscal_year_of(p)>> \in DOMAIN derived_metrics

\* C26 as stated: when the updater has completed, with no other writer
\* between its fetch and its update, the eps_cagr_2y it stored for a fiscal
\* year t is the CAGR of the EPS of t and of t - 2, and a fiscal year with
\* no record for t - 2 gets no CAGR.
C26_TwoFiscalYears ==
    [][ (/\ eps_data # NoFetch
         /\ eps_data' = NoFetch
         /\ eps_data.rows = fetch_eps_data)
        => \A k \in DOMAIN derived_metrics' :
              (derived_metrics'[k].eps_cagr_2y # derived_metrics[k].eps_cagr_2y)
              => /\ TwoYearsAgo(k) \in DOMAIN derived_metrics'
                 /\ derived_metrics'[k].eps_cagr_2y
                      = Cagr(derived_metrics'[k].eps,
                             derived_metrics'[TwoYearsAgo(k)].eps)
      ]_vars

\* the units of the Valuation Signal Calculator whose arithmetic is defined:
\* a snapshot with a ttm_pe joined to derived_metrics rows whose target_pe
\* is neither null nor 0
DefinedUnits ==
    { x \in ValuationTickers \X quarter_ends :
        /\ get_valuation_inputs(x[1], x[2]) # {}
        /\ valuation_snapshots[x].ttm_pe # NULL
        /\ \A k \in get_valuation_inputs(x[1], x[2]) :
              derived_metrics[k].target_pe \notin {NULL, 0} }

\* C23: undefined arithmetic at one (instrument, as_of_date) unit of the
\* Valuation Signal Calculator affects only that unit: after a run the
\* valuation signal of every unit whose arithmetic is defined is written,
\* whatever the target_pe of the other units of the same instrument
C23_UnitIsolation ==
    pc = "valuation" => \A x \in DefinedUnits : x \in DOMAIN valuation_signals

\* C24 as stated: in every valuation_signals row the undervalued flag is
\* set exactly when the stored 4-decimal valuation_signal is below -0.2
C24_FlagOfStoredSignal ==
    \A x \in DOMAIN valuation_signals :
        valuation_signals[x].undervalued_flag
            <=> valuation_signals[x].valuation_signal < 0 - 2000

\* C24: every valuation_signals row has a ttm_pe and a target_pe, its
\* valuation_signal is ttm_pe / target_pe - 1 to four decimal places, and
\* its undervalued flag is set exactly when ttm_pe / target_pe - 1 itself is
\* below -0.2; so a set flag has a stored signal of at most -0.2 and a
\* cleared flag a stored signal of at least -0.2
C24_FlagOfUnroundedSignal ==
    \A x \in DOMAIN valuation_signals :
        LET row == valuation_signals[x]
        IN  /\ row.ttm_pe # NULL /\ row.target_pe # NULL /\ row.target_pe > 0
            /\ row.valuation_signal
                  = RoundDiv((row.ttm_pe - row.target_pe) * 10000, row.target_pe)
            /\ row.undervalued_flag <=> 10 * row.ttm_pe < 8 * row.target_pe
            /\ row.undervalued_flag => row.valuation_signal <= 0 - 2000
            /\ ~row.undervalued_flag => row.valuation_signal >= 0 - 2000

\* a run has written a row whose ratio is below -0.2 by less than half a
\* unit of the fourth decimal place, and a row well below it
C24_Witness ==
    /\ pc = "valuation"
    /\ \E x \in DOMAIN valuation_signals :
          /\ valuation_signals[x].undervalued_flag
          /\ valuation_signals[x].valuation_signal = 0 - 2000
    /\ \E x \in DOMAIN valuation_signals :
          /\ ~valuation_signals[x].undervalued_flag
          /\ x[1] = 1

\* the instruments whose realized returns a stored summary row averages:
\* the detail rows of its (date, holding period) flagged for the basket
TopBasket(D, h) ==
    { k[3] : k \in { x \in DetailKeys(backtest_detail, D, h) :
                        backtest_detail[x].matched_top_n } }

BottomBasket(D, h) ==
    { k[3] : k \in { x \in DetailKeys(backtest_detail, D, h) :
                        backtest_detail[x].matched_bottom_n } }

\* C25: the avg_return_top and the avg_return_bottom of every backtest
\* summary row are means over exactly top_n instruments each, never over an
\* empty or a partial basket
C25_FullBaskets ==
    \A k \in DOMAIN backtest_summary :
        /\ Cardinality(TopBasket(k[1], k[2])) = top_n
        /\ Cardinality(BottomBasket(k[1], k[2])) = top_n

\* C27: every projected_returns row of an (instrument, as_of_date) uses the
\* eps_cagr_2y and the target_pe of a fiscal year of the instrument whose
\* period_ending is on or before the as_of_date
C27_PointInTimeProjection ==
    \A x \in DOMAIN projected_returns :
        \E k \in DOMAIN derived_metrics :
            /\ k[1] = x[1]
            /\ derived_metrics[k].period_ending <= x[2]
            /\ derived_metrics[k].eps_cagr_2y = projected_returns[x].eps_cagr_used
            /\ derived_metrics[k].target_pe = projected_returns[x].target_pe_used

C29_CurrentPrediction ==
    pc = "backtest" =>
        \A k \in DOMAIN backtest_detail :
            /\ backtest_detail[k].composite_score
                  = composite_signals[<<k[3], k[1]>>].composite_score
            /\ backtest_detail[k].predicted_rank = composite_signals[<<k[3], k[1]>>].rank
            /\ \A x \in DetailKeys(backtest_detail, k[1], k[2]) :
                  (backtest_detail[k].matched_top_n /\ ~backtest_detail[x].matched_top_n)
                  => backtest_detail[k].composite_score >= backtest_detail[x].composite_score

\* C30: no detail row has both matched_top_n and matched_bottom_n: the
\* predicted baskets of an evaluated (as_of_date, holding period) share no
\* instrument, also when composite scores tie
C30_DisjointBaskets ==
    \A k \in DOMAIN backtest_detail :
        ~(backtest_detail[k].matched_top_n /\ backtest_detail[k].matched_bottom_n)

====
